---- MODULE Spec2Model ----
(***************************************************************************)
(* A model of bitcraft: bit primitives (bits.rs), the field compiler       *)
(* (compiled.rs) and the schema (schema.rs).                               *)
(*                                                                         *)
(* A u64 / i64 is modelled by its 64-bit pattern: the set of the bit       *)
(* positions (0 = least significant) that are 1.  Shifts, OR, AND and the  *)
(* casts between u64 and i64 are then exact, with the truncation at 64     *)
(* bits the machine type has.  A u8 is a number in 0..255.                 *)
(***************************************************************************)
EXTENDS Integers, Sequences, FiniteSets, TLC

VARIABLES fields, write_config, schema, data, parsed, obj, serialized, op,
          transform, field_value, transformed_value, calls, locals,
          wasm_schema, reader, reader_call, overflow_checks

vars == <<fields, write_config, schema, data, parsed, obj, serialized, op,
          transform, field_value, transformed_value, calls, locals,
          wasm_schema, reader, reader_call, overflow_checks>>

\* The result of WasmSchema::new; a BitReader, the last call on it and whether
\* the build checks integer overflow.
rvars == <<wasm_schema, reader, reader_call, overflow_checks>>

\* The transform of a field, its input and output, the calls in progress, and
\* the state outside the core schema.
tvars == <<transform, field_value, transformed_value, calls, locals,
           wasm_schema, reader, reader_call, overflow_checks>>

\* ------------------------------------------------------------ machine words

\* The width of u64 / i64.
WordBits == 64

Word == 0 .. (WordBits - 1)

\* Every operator builds its result by filtering Word, so that a word is always
\* an explicit set of positions.
Shl(v, s) == {b \in Word : (b - s) \in v}

Shr(v, s) == {b \in Word : (b + s) \in v}

\* (x as i64) >> s : the arithmetic shift, the sign bit is replicated.
Sar(v, s) == {b \in Word : (b + s) \in v \/ (b + s >= WordBits /\ (WordBits - 1) \in v)}

Or(a, b) == {x \in Word : x \in a \/ x \in b}

And(a, b) == {x \in Word : x \in a /\ x \in b}

\* The pattern of the low n bits all set: (1 << n) - 1 (u64::MAX for n = 64).
Mask(n) == {b \in Word : b < n}

\* A 0/1 bit widened to u64.
BitAsWord(bit) == IF bit = 1 THEN {0} ELSE {}

\* A usize is modelled by the integer nearest 0 of its residue class modulo
\* 2^64: r >= 0 stands for r, and r < 0 for 2^64 + r (usize::MAX is -1).  The
\* non-negative values of the model stay far below 2^63.

\* a < b as usize
usize_lt(a, b) == IF (a < 0) = (b < 0) THEN a < b ELSE b < 0

\* a + b does not fit a usize.
add_overflows(a, b) == (a < 0 /\ b < 0) \/ ((a < 0 \/ b < 0) /\ a + b >= 0)

\* 2^k % m
RECURSIVE pow2_rem(_, _)
pow2_rem(k, m) == IF k = 0 THEN 1 % m ELSE (2 * pow2_rem(k - 1, m)) % m

\* a % b as usize, b # 0
usize_rem(a, b) ==
    IF b > 0
    THEN IF a >= 0 THEN a % b ELSE (pow2_rem(WordBits, b) + (a % b)) % b
    ELSE IF usize_lt(a, b) THEN a ELSE a - b

\* TRUE.  TLC evaluates v to decide it, so a loop that tests its next state
\* with Now carries a value, not a growing unevaluated expression, into the
\* next turn (the ELSE arm of such a test is never taken).
Now(v) == v = v

\* ------------------------------------------------------------------ results

Ok(v) == [ok |-> TRUE, val |-> v, err |-> "none"]

Err(e) == [ok |-> FALSE, val |-> <<>>, err |-> e]

\* -------------------------------------------------------------- value trees

I64(p) == [tag |-> "I64", bits |-> p, elems |-> <<>>]

U64(p) == [tag |-> "U64", bits |-> p, elems |-> <<>>]

Array(vs) == [tag |-> "Array", bits |-> {}, elems |-> vs]

\* ------------------------------------------------------------------ bits.rs

\* read_bit_at that counts bit 0 from the low end of each byte.
read_bit_at_LowBitFirst(d, bit_pos) ==
    IF bit_pos >= Len(d) * 8
    THEN Err("OutOfBounds")
    ELSE LET byte_index == bit_pos \div 8
             bit_index == bit_pos % 8
         IN Ok((d[byte_index + 1] \div (2 ^ bit_index)) % 2)

read_bit_at(d, bit_pos) ==
    IF bit_pos >= Len(d) * 8
    THEN Err("OutOfBounds")
    ELSE LET byte_index == bit_pos \div 8
             bit_index == bit_pos % 8
         IN Ok((d[byte_index + 1] \div (2 ^ (7 - bit_index))) % 2)

\* for _ in 0..n { value = (value << 1) | bit; pos += 1 }
RECURSIVE read_bits_loop(_, _, _, _)
read_bits_loop(d, pos, k, value) ==
    IF k = 0
    THEN Ok(value)
    ELSE LET bit == read_bit_at(d, pos)
         IN IF ~bit.ok
            THEN bit
            ELSE LET next == Or(Shl(value, 1), BitAsWord(bit.val))
                 IN IF Now(next) THEN read_bits_loop(d, pos + 1, k - 1, next) ELSE Err("")

\* bit_pos.checked_add(n).map_or(true, |end| end > data.len() * 8)
run_exceeds(d, bit_pos, n) ==
    IF add_overflows(bit_pos, n) THEN TRUE ELSE usize_lt(Len(d) * 8, bit_pos + n)

read_bits_at(d, bit_pos, n) ==
    IF usize_lt(64, n)
    THEN Err("TooManyBitsRead")
    ELSE IF run_exceeds(d, bit_pos, n)
         THEN Err("OutOfBounds")
         ELSE read_bits_loop(d, bit_pos, n, {})

\* sign_extend without the cast to i64: the right shift is logical.
sign_extend_LogicalShift(value, bits) ==
    LET shift == 64 - bits
    IN Shr(Shl(value, shift), shift)

sign_extend(value, bits) ==
    LET shift == 64 - bits
    IN Sar(Shl(value, shift), shift)

\* for _ in 0..n { r = (r << 1) | (x & 1); x >>= 1 }
RECURSIVE reverse_bits_loop(_, _, _)
reverse_bits_loop(x, r, k) ==
    IF k = 0
    THEN r
    ELSE LET next == <<Shr(x, 1), Or(Shl(r, 1), And(x, {0}))>>
         IN IF Now(next) THEN reverse_bits_loop(next[1], next[2], k - 1) ELSE {}

reverse_bits_n(x, n) == reverse_bits_loop(x, {}, n)

\* out[byte_index] |= bit << bit_in_byte
\* OrBit that assigns the shifted bit to the byte (= for |=).
OrBit_Assign(byte, bit, pos) == IF bit = 1 THEN 2 ^ pos ELSE 0

OrBit(byte, bit, pos) ==
    IF bit = 1 /\ (byte \div (2 ^ pos)) % 2 = 0 THEN byte + 2 ^ pos ELSE byte

\* The turns i = 8*byte_index + j (j = 0..7) of `for (i, &bit) in bits.iter()`:
\* the only turns that touch out[byte_index].
RECURSIVE bits_to_bytes_loop(_, _, _, _, _)
bits_to_bytes_loop(bits, bit_order, byte_index, j, out_byte) ==
    LET i == 8 * byte_index + j
    IN IF j >= 8 \/ i >= Len(bits)
       THEN out_byte
       ELSE LET bit_in_byte == IF bit_order = "MsbFirst" THEN 7 - (i % 8) ELSE i % 8
            IN bits_to_bytes_loop(bits, bit_order, byte_index, j + 1,
                   OrBit(out_byte, bits[i + 1], bit_in_byte))

\* bits_to_bytes with the two bit orders exchanged.
bits_to_bytes_OrdersSwapped(bits, bit_order) ==
    LET n_bytes == (Len(bits) + 7) \div 8
    IN [k \in 1 .. n_bytes |->
           bits_to_bytes_loop(bits, IF bit_order = "MsbFirst" THEN "LsbFirst" ELSE "MsbFirst",
                              k - 1, 0, 0)]

\* bits_to_bytes that drops a last byte that is not full.
bits_to_bytes_WholeBytes(bits, bit_order) ==
    LET n_bytes == Len(bits) \div 8
    IN [k \in 1 .. n_bytes |-> bits_to_bytes_loop(bits, bit_order, k - 1, 0, 0)]

bits_to_bytes(bits, bit_order) ==
    LET n_bytes == (Len(bits) + 7) \div 8
    IN [k \in 1 .. n_bytes |-> bits_to_bytes_loop(bits, bit_order, k - 1, 0, 0)]

\* -------------------------------------------------------------- compiled.rs

CompiledFragment_try_from(fragment) ==
    IF fragment.len_bits = 0
    THEN Err("InvalidFragment")
    ELSE Ok([offset_bits |-> fragment.offset_bits,
             len_bits |-> fragment.len_bits,
             bit_order |-> fragment.bit_order,
             shift |-> 0])

RECURSIVE SumLenBits(_)
SumLenBits(frags) ==
    IF frags = <<>> THEN 0 ELSE frags[1].len_bits + SumLenBits(Tail(frags))

\* The ConcatMsb arm with the shift taken before `remaining` is decremented.
RECURSIVE compile_fragments_msb_ShiftBeforeSubtract(_, _, _)
compile_fragments_msb_ShiftBeforeSubtract(frags, remaining, out) ==
    IF frags = <<>>
    THEN Ok(out)
    ELSE LET rem == remaining - frags[1].len_bits
             cf == CompiledFragment_try_from(frags[1])
         IN IF ~cf.ok
            THEN cf
            ELSE compile_fragments_msb_ShiftBeforeSubtract(Tail(frags), rem,
                     Append(out, [cf.val EXCEPT !.shift = remaining]))

\* The ConcatMsb arm: remaining counts down from total_bits.
RECURSIVE compile_fragments_msb(_, _, _)
compile_fragments_msb(frags, remaining, out) ==
    IF frags = <<>>
    THEN Ok(out)
    ELSE LET rem == remaining - frags[1].len_bits
             cf == CompiledFragment_try_from(frags[1])
         IN IF ~cf.ok
            THEN cf
            ELSE compile_fragments_msb(Tail(frags), rem,
                     Append(out, [cf.val EXCEPT !.shift = rem]))

\* The ConcatLsb arm: shift counts up from 0.
RECURSIVE compile_fragments_lsb(_, _, _)
compile_fragments_lsb(frags, shift, out) ==
    IF frags = <<>>
    THEN Ok(out)
    ELSE LET cf == CompiledFragment_try_from(frags[1])
         IN IF ~cf.ok
            THEN cf
            ELSE compile_fragments_lsb(Tail(frags), shift + frags[1].len_bits,
                     Append(out, [cf.val EXCEPT !.shift = shift]))

\* CompiledScalar_try_from that compiles the fragments before it tests the
\* total size.
CompiledScalar_try_from_FragmentsFirst(value) ==
    LET total_bits == SumLenBits(value.fragments)
        frs == IF value.assemble = "ConcatMsb"
               THEN compile_fragments_msb(value.fragments, total_bits, <<>>)
               ELSE compile_fragments_lsb(value.fragments, 0, <<>>)
    IN IF ~frs.ok
       THEN frs
       ELSE IF total_bits = 0 \/ total_bits > 64
            THEN Err("InvalidFieldSize")
            ELSE Ok([signed |-> value.signed,
                     total_bits |-> total_bits,
                     fragments |-> frs.val])

CompiledScalar_try_from(value) ==
    LET total_bits == SumLenBits(value.fragments)
    IN IF total_bits = 0 \/ total_bits > 64
       THEN Err("InvalidFieldSize")
       ELSE LET frs == IF value.assemble = "ConcatMsb"
                       THEN compile_fragments_msb(value.fragments, total_bits, <<>>)
                       ELSE compile_fragments_lsb(value.fragments, 0, <<>>)
            IN IF ~frs.ok
               THEN frs
               ELSE Ok([signed |-> value.signed,
                        total_bits |-> total_bits,
                        fragments |-> frs.val])

\* CompiledField_try_from with the stride test off by one (<= for <).
CompiledField_try_from_StrideOffByOne(value) ==
    LET cs == CompiledScalar_try_from(value)
    IN IF ~cs.ok
       THEN cs
       ELSE IF value.kind = "Scalar"
            THEN Ok([name |-> value.name, kind |-> "Scalar", scalar |-> cs.val,
                     count |-> 0, stride_bits |-> 0, offset_bits |-> 0])
            ELSE IF value.spec.stride_bits <= cs.val.total_bits
                 THEN Err("InvalidArrayStride")
                 ELSE IF value.spec.count = 0
                      THEN Err("InvalidArrayCount")
                      ELSE IF Len(value.fragments) = 0
                           THEN Err("EmptyArrayElement")
                           ELSE Ok([name |-> value.name, kind |-> "Array",
                                    scalar |-> cs.val,
                                    count |-> value.spec.count,
                                    stride_bits |-> value.spec.stride_bits,
                                    offset_bits |-> value.spec.offset_bits])

\* CompiledField_try_from without the test of the array count.
CompiledField_try_from_CountUnchecked(value) ==
    LET cs == CompiledScalar_try_from(value)
    IN IF ~cs.ok
       THEN cs
       ELSE IF value.kind = "Scalar"
            THEN Ok([name |-> value.name, kind |-> "Scalar", scalar |-> cs.val,
                     count |-> 0, stride_bits |-> 0, offset_bits |-> 0])
            ELSE IF value.spec.stride_bits < cs.val.total_bits
                 THEN Err("InvalidArrayStride")
                 ELSE IF Len(value.fragments) = 0
                      THEN Err("EmptyArrayElement")
                      ELSE Ok([name |-> value.name, kind |-> "Array",
                               scalar |-> cs.val,
                               count |-> value.spec.count,
                               stride_bits |-> value.spec.stride_bits,
                               offset_bits |-> value.spec.offset_bits])

\* A CompiledField; for kind "Scalar" the array members are unused (0).
CompiledField_try_from(value) ==
    LET cs == CompiledScalar_try_from(value)
    IN IF ~cs.ok
       THEN cs
       ELSE IF value.kind = "Scalar"
            THEN Ok([name |-> value.name, kind |-> "Scalar", scalar |-> cs.val,
                     count |-> 0, stride_bits |-> 0, offset_bits |-> 0])
            ELSE IF value.spec.stride_bits < cs.val.total_bits
                 THEN Err("InvalidArrayStride")
                 ELSE IF value.spec.count = 0
                      THEN Err("InvalidArrayCount")
                      ELSE IF Len(value.fragments) = 0
                           THEN Err("EmptyArrayElement")
                           ELSE Ok([name |-> value.name, kind |-> "Array",
                                    scalar |-> cs.val,
                                    count |-> value.spec.count,
                                    stride_bits |-> value.spec.stride_bits,
                                    offset_bits |-> value.spec.offset_bits])

\* assemble_loop that never reverses a fragment's bits.
RECURSIVE assemble_loop_NoReverse(_, _, _, _)
assemble_loop_NoReverse(frags, d, offset_bits, value) ==
    IF frags = <<>>
    THEN Ok(value)
    ELSE LET fragment == frags[1]
             rd == read_bits_at(d, fragment.offset_bits + offset_bits, fragment.len_bits)
         IN IF ~rd.ok
            THEN rd
            ELSE assemble_loop_NoReverse(Tail(frags), d, offset_bits,
                     Or(value, Shl(rd.val, fragment.shift)))

RECURSIVE assemble_loop(_, _, _, _)
assemble_loop(frags, d, offset_bits, value) ==
    IF frags = <<>>
    THEN Ok(value)
    ELSE LET fragment == frags[1]
             rd == read_bits_at(d, fragment.offset_bits + offset_bits, fragment.len_bits)
         IN IF ~rd.ok
            THEN rd
            ELSE LET part == IF fragment.bit_order = "LsbFirst"
                             THEN reverse_bits_n(rd.val, fragment.len_bits)
                             ELSE rd.val
                 IN assemble_loop(Tail(frags), d, offset_bits,
                        Or(value, Shl(part, fragment.shift)))

CompiledScalar_assemble_at(self, d, offset_bits) ==
    LET acc == assemble_loop(self.fragments, d, offset_bits, {})
    IN IF ~acc.ok
       THEN acc
       ELSE IF self.signed
            THEN Ok(I64(sign_extend(acc.val, self.total_bits)))
            ELSE Ok(U64(acc.val))

CompiledScalar_assemble(self, d) == CompiledScalar_assemble_at(self, d, 0)

\* array_assemble_loop that forgets the array's own offset_bits.
RECURSIVE array_assemble_loop_NoOffset(_, _, _, _)
array_assemble_loop_NoOffset(self, d, i, values) ==
    IF i >= self.count
    THEN Ok(Array(values))
    ELSE LET offset == i * self.stride_bits
             v == CompiledScalar_assemble_at(self.scalar, d, offset)
         IN IF ~v.ok
            THEN v
            ELSE array_assemble_loop_NoOffset(self, d, i + 1, Append(values, v.val))

RECURSIVE array_assemble_loop(_, _, _, _)
array_assemble_loop(self, d, i, values) ==
    IF i >= self.count
    THEN Ok(Array(values))
    ELSE LET offset == self.offset_bits + i * self.stride_bits
             v == CompiledScalar_assemble_at(self.scalar, d, offset)
         IN IF ~v.ok
            THEN v
            ELSE array_assemble_loop(self, d, i + 1, Append(values, v.val))

CompiledArray_assemble(self, d) == array_assemble_loop(self, d, 0, <<>>)

\* ---------------------------------------------------------------- schema.rs

Max(a, b) == IF a >= b THEN a ELSE b

\* for frag in &scalar.fragments { total_bits = total_bits.max(offset + len) }
RECURSIVE scalar_extent(_, _)
scalar_extent(frags, total_bits) ==
    IF frags = <<>>
    THEN total_bits
    ELSE scalar_extent(Tail(frags),
             Max(total_bits, frags[1].offset_bits + frags[1].len_bits))

array_extent(array) ==
    array.offset_bits + array.scalar.total_bits + array.stride_bits * (array.count - 1)

\* compile_loop that compiles every field and reports the last error found.
RECURSIVE compile_loop_LastError(_, _, _)
compile_loop_LastError(fs, compiled_fields, total_bits) ==
    IF fs = <<>>
    THEN Ok([fields |-> compiled_fields, total_bits |-> total_bits])
    ELSE LET cf == CompiledField_try_from(fs[1])
             rest == compile_loop_LastError(Tail(fs), compiled_fields, total_bits)
         IN IF ~rest.ok
            THEN rest
            ELSE IF ~cf.ok
                 THEN cf
                 ELSE Ok([fields |-> <<cf.val>> \o rest.val.fields,
                          total_bits |-> Max(rest.val.total_bits,
                              IF cf.val.kind = "Scalar"
                              THEN scalar_extent(cf.val.scalar.fragments, 0)
                              ELSE array_extent(cf.val))])

RECURSIVE compile_loop(_, _, _)
compile_loop(fs, compiled_fields, total_bits) ==
    IF fs = <<>>
    THEN Ok([fields |-> compiled_fields, total_bits |-> total_bits])
    ELSE LET cf == CompiledField_try_from(fs[1])
         IN IF ~cf.ok
            THEN cf
            ELSE compile_loop(Tail(fs), Append(compiled_fields, cf.val),
                     IF cf.val.kind = "Scalar"
                     THEN scalar_extent(cf.val.scalar.fragments, total_bits)
                     ELSE Max(total_bits, array_extent(cf.val)))

Schema_compile(fs, wc) ==
    LET r == compile_loop(fs, <<>>, 0)
    IN IF ~r.ok
       THEN r
       ELSE Ok([fields |-> r.val.fields,
                total_bits |-> r.val.total_bits,
                write_config |-> wc])

\* MapInsert that keeps the value a name already has.
MapInsert_KeepFirst(map, name, value) == map @@ (name :> value)

\* map.insert(name, value): a later insert under the same name replaces the value.
MapInsert(map, name, value) == (name :> value) @@ map

RECURSIVE parse_loop(_, _, _)
parse_loop(cfs, d, map) ==
    IF cfs = <<>>
    THEN Ok(map)
    ELSE LET field == cfs[1]
             v == IF field.kind = "Scalar"
                  THEN CompiledScalar_assemble(field.scalar, d)
                  ELSE CompiledArray_assemble(field, d)
         IN IF ~v.ok
            THEN v
            ELSE parse_loop(Tail(cfs), d, MapInsert(map, field.name, v.val))

\* Schema_parse with the need rounded down to whole bytes.
Schema_parse_WholeBytes(self, d) ==
    IF Len(d) < self.total_bits \div 8
    THEN Err("PacketTooShort")
    ELSE parse_loop(self.fields, d, <<>>)

Schema_parse(self, d) ==
    IF Len(d) * 8 < self.total_bits
    THEN Err("PacketTooShort")
    ELSE parse_loop(self.fields, d, <<>>)

\* The bits of `slice`, most significant of the len_bits first.
RECURSIVE push_bits(_, _, _)
push_bits(slice, n, bits) ==
    IF n = 0
    THEN bits
    ELSE LET next == Append(bits, IF (n - 1) \in slice THEN 1 ELSE 0)
         IN IF Now(next) THEN push_bits(slice, n - 1, next) ELSE <<>>

RECURSIVE disassemble_loop(_, _, _)
disassemble_loop(frags, p, bits) ==
    IF frags = <<>>
    THEN bits
    ELSE LET fragment == frags[1]
             slice == And(Shr(p, fragment.shift), Mask(fragment.len_bits))
             part == IF fragment.bit_order = "LsbFirst"
                     THEN reverse_bits_n(slice, fragment.len_bits)
                     ELSE slice
         IN disassemble_loop(Tail(frags), p, push_bits(part, fragment.len_bits, bits))

CompiledScalar_disassemble(self, value, bits) ==
    IF value.tag \notin {"I64", "U64"}
    THEN Err("InvalidValue")
    ELSE Ok(disassemble_loop(self.fragments, value.bits, bits))

RECURSIVE array_disassemble_loop(_, _, _)
array_disassemble_loop(self, values, bits) ==
    IF values = <<>>
    THEN Ok(bits)
    ELSE LET r == CompiledScalar_disassemble(self.scalar, values[1], bits)
         IN IF ~r.ok
            THEN r
            ELSE array_disassemble_loop(self, Tail(values), r.val)

CompiledArray_disassemble(self, value, bits) ==
    IF value.tag # "Array"
    THEN Err("InvalidValue")
    ELSE IF Len(value.elems) # self.count
         THEN Err("InvalidValue")
         ELSE array_disassemble_loop(self, value.elems, bits)

\* The serialize loop that passes over a field the map has no entry for.
RECURSIVE serialize_loop_MissingSkipped(_, _, _)
serialize_loop_MissingSkipped(cfs, o, bits) ==
    IF cfs = <<>>
    THEN Ok(bits)
    ELSE LET field == cfs[1]
         IN IF field.name \notin DOMAIN o
            THEN serialize_loop_MissingSkipped(Tail(cfs), o, bits)
            ELSE LET r == IF field.kind = "Scalar"
                          THEN CompiledScalar_disassemble(field.scalar, o[field.name], bits)
                          ELSE CompiledArray_disassemble(field, o[field.name], bits)
                 IN IF ~r.ok
                    THEN r
                    ELSE serialize_loop_MissingSkipped(Tail(cfs), o, r.val)

\* The serialize loop without the `?` on disassemble: a failed field adds no bits.
RECURSIVE serialize_loop_ErrorDropped(_, _, _)
serialize_loop_ErrorDropped(cfs, o, bits) ==
    IF cfs = <<>>
    THEN Ok(bits)
    ELSE LET field == cfs[1]
         IN IF field.name \notin DOMAIN o
            THEN Err("MissingField(" \o field.name \o ")")
            ELSE LET r == IF field.kind = "Scalar"
                          THEN CompiledScalar_disassemble(field.scalar, o[field.name], bits)
                          ELSE CompiledArray_disassemble(field, o[field.name], bits)
                 IN serialize_loop_ErrorDropped(Tail(cfs), o, IF r.ok THEN r.val ELSE bits)

RECURSIVE serialize_loop(_, _, _)
serialize_loop(cfs, o, bits) ==
    IF cfs = <<>>
    THEN Ok(bits)
    ELSE LET field == cfs[1]
         IN IF field.name \notin DOMAIN o
            THEN Err("MissingField(" \o field.name \o ")")
            ELSE LET r == IF field.kind = "Scalar"
                          THEN CompiledScalar_disassemble(field.scalar, o[field.name], bits)
                          ELSE CompiledArray_disassemble(field, o[field.name], bits)
                 IN IF ~r.ok
                    THEN r
                    ELSE serialize_loop(Tail(cfs), o, r.val)

Schema_serialize(self, o) ==
    LET bits == serialize_loop(self.fields, o, <<>>)
    IN IF ~bits.ok
       THEN bits
       ELSE Ok(bits_to_bytes(bits.val,
                   IF self.write_config = "None" THEN "MsbFirst" ELSE self.write_config))

\* ------------------------------------------------------------- transform.rs

\* A Result<Value, TransformError>; arg is the i64 an InvalidEnumValue carries.
TOk(v) == [ok |-> TRUE, val |-> v, err |-> "none", arg |-> {}]

TErr(e) == [ok |-> FALSE, val |-> <<>>, err |-> e, arg |-> {}]

InvalidEnumValue(v) == [ok |-> FALSE, val |-> <<>>, err |-> "InvalidEnumValue", arg |-> v]

\* transform::Value.  An Int holds its i64 pattern, a Float32 / Float64 its
\* IEEE-754 pattern, Bytes its u8 sequence and a String its UTF-8 bytes.
Value_Int(p) == [tag |-> "Int", bits |-> p, bytes |-> <<>>, elems |-> <<>>]

Value_Float32(p) == [tag |-> "Float32", bits |-> p, bytes |-> <<>>, elems |-> <<>>]

Value_Float64(p) == [tag |-> "Float64", bits |-> p, bytes |-> <<>>, elems |-> <<>>]

Value_Bytes(b) == [tag |-> "Bytes", bits |-> {}, bytes |-> b, elems |-> <<>>]

Value_String(b) == [tag |-> "String", bits |-> {}, bytes |-> b, elems |-> <<>>]

Value_Array(vs) == [tag |-> "Array", bits |-> {}, bytes |-> <<>>, elems |-> vs]

\* An f64 of the configuration: absent ("none"), s * m * 2^e ("num", s = 1 or
\* -1, m odd or 0), or non-finite ("nan", "inf").
NoF64 == [k |-> "none", s |-> 1, m |-> 0, e |-> 0]

NaN == [k |-> "nan", s |-> 1, m |-> 0, e |-> 0]

Infinity(s) == [k |-> "inf", s |-> s, m |-> 0, e |-> 0]

is_some(x) == x.k # "none"

is_finite(x) == x.k = "num"

\* Option<HashMap<i64, String>>: keys are i64 patterns, labels UTF-8 bytes.
NoEnumMap == [some |-> FALSE, map |-> [k \in {} |-> <<>>]]

SomeEnumMap(m) == [some |-> TRUE, map |-> m]

Transform_new(base) ==
    [base |-> base, scale |-> NoF64, offset |-> NoF64, encoding |-> "None",
     zero_terminated |-> "None", trim |-> "None", enum_map |-> NoEnumMap]

\* Option<bool>::unwrap_or(false)
unwrap_or_false(b) == b = "true"

\* validate that checks the scale only.
validate_ScaleOnly(self) ==
    IF is_some(self.scale) /\ ~is_finite(self.scale)
    THEN TErr("InvalidScaleOffset")
    ELSE TOk(<<>>)

validate(self) ==
    IF is_some(self.scale) /\ ~is_finite(self.scale)
    THEN TErr("InvalidScaleOffset")
    ELSE IF self.base = "Bytes" /\ self.enum_map.some
    THEN TErr("InvalidType")
    ELSE IF self.encoding # "None" /\ self.base # "Bytes"
    THEN TErr("InvalidType")
    ELSE IF self.enum_map.some /\ self.base # "Int"
    THEN TErr("InvalidType")
    ELSE TOk(<<>>)

\* v as u32
as_u32(v) == {b \in Word : b < 32 /\ b \in v}

\* reinterpret_base that takes an I64 for a float base as well.
reinterpret_base_AnyInteger(base, value) ==
    CASE base = "Int" /\ value.tag \in {"I64", "U64"} -> TOk(Value_Int(value.bits))
      [] base = "Float32" /\ value.tag \in {"I64", "U64"} ->
             TOk(Value_Float32(as_u32(value.bits)))
      [] base = "Float64" /\ value.tag \in {"I64", "U64"} -> TOk(Value_Float64(value.bits))
      [] OTHER -> TErr("InvalidBase")

reinterpret_base(base, value) ==
    CASE base = "Int" /\ value.tag = "I64" -> TOk(Value_Int(value.bits))
      [] base = "Int" /\ value.tag = "U64" -> TOk(Value_Int(value.bits))
      [] base = "Float32" /\ value.tag = "U64" -> TOk(Value_Float32(as_u32(value.bits)))
      [] base = "Float64" /\ value.tag = "U64" -> TOk(Value_Float64(value.bits))
      [] OTHER -> TErr("InvalidBase")

\* x as u8, for a pattern x
as_u8(x) ==
    LET bit(b) == IF b \in x THEN 2 ^ b ELSE 0
    IN bit(0) + bit(1) + bit(2) + bit(3) + bit(4) + bit(5) + bit(6) + bit(7)

\* extract_bytes without the range tests: every integer is cast to u8.
RECURSIVE extract_bytes_loop_Wrapping(_, _)
extract_bytes_loop_Wrapping(values, bytes) ==
    IF values = <<>>
    THEN TOk(bytes)
    ELSE LET v == values[1]
         IN IF v.tag \in {"U64", "I64"}
            THEN extract_bytes_loop_Wrapping(Tail(values), Append(bytes, as_u8(v.bits)))
            ELSE TErr("InvalidType")

RECURSIVE extract_bytes_loop(_, _)
extract_bytes_loop(values, bytes) ==
    IF values = <<>>
    THEN TOk(bytes)
    ELSE LET v == values[1]
         IN CASE v.tag = "U64" ->
                     \* x > 255
                     IF \E b \in v.bits : b >= 8
                     THEN TErr("InvalidByteValue")
                     ELSE extract_bytes_loop(Tail(values), Append(bytes, as_u8(v.bits)))
              [] v.tag = "I64" ->
                     \* x < 0 || x > 255
                     IF (WordBits - 1) \in v.bits \/ (\E b \in v.bits : b >= 8)
                     THEN TErr("InvalidByteValue")
                     ELSE extract_bytes_loop(Tail(values), Append(bytes, as_u8(v.bits)))
              [] OTHER -> TErr("InvalidType")

extract_bytes(raw) ==
    IF raw.tag = "Array"
    THEN extract_bytes_loop(raw.elems, <<>>)
    ELSE TErr("InvalidType")

\* bytes.iter().position(|b| *b == 0), then truncate
truncate_at_zero(bytes) ==
    IF \E i \in 1 .. Len(bytes) : bytes[i] = 0
    THEN LET pos == CHOOSE i \in 1 .. Len(bytes) :
                        bytes[i] = 0 /\ \A j \in 1 .. (i - 1) : bytes[j] # 0
         IN SubSeq(bytes, 1, pos - 1)
    ELSE bytes

IsCont(b) == b >= 128 /\ b <= 191

\* The length of the well-formed UTF-8 sequence that starts bs, 0 when there
\* is none (the table of the Unicode standard that String::from_utf8 follows).
utf8_char_width(bs) ==
    LET n == Len(bs)
        b1 == bs[1]
        cont(i) == n >= i /\ IsCont(bs[i])
        second(lo, hi) == n >= 2 /\ bs[2] >= lo /\ bs[2] <= hi
    IN CASE b1 <= 127 -> 1
         [] b1 >= 194 /\ b1 <= 223 -> IF cont(2) THEN 2 ELSE 0
         [] b1 = 224 -> IF second(160, 191) /\ cont(3) THEN 3 ELSE 0
         [] b1 = 237 -> IF second(128, 159) /\ cont(3) THEN 3 ELSE 0
         [] b1 >= 225 /\ b1 <= 239 -> IF cont(2) /\ cont(3) THEN 3 ELSE 0
         [] b1 = 240 -> IF second(144, 191) /\ cont(3) /\ cont(4) THEN 4 ELSE 0
         [] b1 = 244 -> IF second(128, 143) /\ cont(3) /\ cont(4) THEN 4 ELSE 0
         [] b1 >= 241 /\ b1 <= 243 -> IF cont(2) /\ cont(3) /\ cont(4) THEN 4 ELSE 0
         [] OTHER -> 0

\* String::from_utf8(bytes).is_ok()
RECURSIVE is_utf8(_)
is_utf8(bs) ==
    IF bs = <<>>
    THEN TRUE
    ELSE LET w == utf8_char_width(bs)
         IN w # 0 /\ is_utf8(SubSeq(bs, w + 1, Len(bs)))

\* The UTF-8 encodings of the characters with the White_Space property.
IsWhiteSpace(c) ==
    \/ Len(c) = 1 /\ ((c[1] >= 9 /\ c[1] <= 13) \/ c[1] = 32)
    \/ Len(c) = 2 /\ c[1] = 194 /\ c[2] \in {133, 160}
    \/ Len(c) = 3 /\ c[1] = 225 /\ c[2] = 154 /\ c[3] = 128
    \/ Len(c) = 3 /\ c[1] = 226 /\ c[2] = 128
           /\ ((c[3] >= 128 /\ c[3] <= 138) \/ c[3] \in {168, 169, 175})
    \/ Len(c) = 3 /\ c[1] = 226 /\ c[2] = 129 /\ c[3] = 159
    \/ Len(c) = 3 /\ c[1] = 227 /\ c[2] = 128 /\ c[3] = 128

RECURSIVE trim_start(_)
trim_start(s) ==
    IF s = <<>>
    THEN s
    ELSE LET w == utf8_char_width(s)
         IN IF IsWhiteSpace(SubSeq(s, 1, w))
            THEN trim_start(SubSeq(s, w + 1, Len(s)))
            ELSE s

RECURSIVE trim_end(_)
trim_end(s) ==
    IF \E w \in 1 .. 3 : w <= Len(s) /\ IsWhiteSpace(SubSeq(s, Len(s) - w + 1, Len(s)))
    THEN LET w == CHOOSE w \in 1 .. 3 :
                      w <= Len(s) /\ IsWhiteSpace(SubSeq(s, Len(s) - w + 1, Len(s)))
         IN trim_end(SubSeq(s, 1, Len(s) - w))
    ELSE s

\* str::trim
trim(s) == trim_end(trim_start(s))

\* apply_string that tests the Ascii range before it truncates at the zero byte.
apply_string_AsciiFirst(value, encoding, zero_terminated, trim_opt) ==
    IF encoding = "None"
    THEN TOk(value)
    ELSE IF value.tag # "Bytes"
    THEN TErr("InvalidType")
    ELSE IF encoding = "Ascii" /\ \E i \in 1 .. Len(value.bytes) : value.bytes[i] > 127
    THEN TErr("InvalidAsciiByteValue")
    ELSE LET bytes == IF unwrap_or_false(zero_terminated)
                      THEN truncate_at_zero(value.bytes)
                      ELSE value.bytes
         IN IF ~is_utf8(bytes)
            THEN TErr("InvalidEncoding")
            ELSE TOk(Value_String(IF unwrap_or_false(trim_opt) THEN trim(bytes) ELSE bytes))

apply_string(value, encoding, zero_terminated, trim_opt) ==
    IF encoding = "None"
    THEN TOk(value)
    ELSE IF value.tag # "Bytes"
    THEN TErr("InvalidType")
    ELSE LET bytes == IF unwrap_or_false(zero_terminated)
                      THEN truncate_at_zero(value.bytes)
                      ELSE value.bytes
         IN IF encoding = "Ascii" /\ \E i \in 1 .. Len(bytes) : bytes[i] > 127
            THEN TErr("InvalidAsciiByteValue")
            ELSE IF ~is_utf8(bytes)
            THEN TErr("InvalidEncoding")
            ELSE TOk(Value_String(IF unwrap_or_false(trim_opt) THEN trim(bytes) ELSE bytes))

\* apply_enum that lets an integer without a label through.
apply_enum_PassUnknown(value, enum_map) ==
    IF enum_map.some
    THEN IF value.tag = "Int"
         THEN IF value.bits \in DOMAIN enum_map.map
              THEN TOk(Value_String(enum_map.map[value.bits]))
              ELSE TOk(value)
         ELSE TErr("InvalidType")
    ELSE TOk(value)

apply_enum(value, enum_map) ==
    IF enum_map.some
    THEN IF value.tag = "Int"
         THEN IF value.bits \in DOMAIN enum_map.map
              THEN TOk(Value_String(enum_map.map[value.bits]))
              ELSE InvalidEnumValue(value.bits)
         ELSE TErr("InvalidType")
    ELSE TOk(value)

\* ---- IEEE-754 values.  A finite float is s * m * 2^e with m odd (or 0, then
\* e = 0); m stays below 2^31 in every computation on the inputs of this model.

RECURSIVE Num(_, _, _)
Num(s, m, e) ==
    IF m = 0
    THEN [k |-> "num", s |-> s, m |-> 0, e |-> 0]
    ELSE IF m % 2 = 0
    THEN Num(s, m \div 2, e + 1)
    ELSE [k |-> "num", s |-> s, m |-> m, e |-> e]

RECURSIVE BitLen(_)
BitLen(m) == IF m = 0 THEN 0 ELSE 1 + BitLen(m \div 2)

MinOf(S) == CHOOSE x \in S : \A y \in S : x <= y

MaxOf(S) == CHOOSE x \in S : \A y \in S : x >= y

\* The number whose set bits are S, divided by 2^lo.
RECURSIVE SumBits(_, _)
SumBits(S, lo) ==
    IF S = {}
    THEN 0
    ELSE LET b == MaxOf(S) IN 2 ^ (b - lo) + SumBits(S \ {b}, lo)

NumOfBits(s, S) == IF S = {} THEN Num(s, 0, 0) ELSE Num(s, SumBits(S, MinOf(S)), MinOf(S))

\* Round to nearest, ties to even, to a significand of p bits.
RoundTo(x, p) ==
    IF x.k # "num" \/ BitLen(x.m) <= p
    THEN x
    ELSE LET sh == BitLen(x.m) - p
             q == x.m \div (2 ^ sh)
             r == x.m % (2 ^ sh)
             half == 2 ^ (sh - 1)
             up == r > half \/ (r = half /\ q % 2 = 1)
         IN Num(x.s, IF up THEN q + 1 ELSE q, x.e + sh)

\* a * b, rounded to p bits
FMul(a, b, p) ==
    CASE a.k = "nan" \/ b.k = "nan" -> NaN
      [] a.k = "inf" \/ b.k = "inf" ->
             IF (a.k = "num" /\ a.m = 0) \/ (b.k = "num" /\ b.m = 0)
             THEN NaN
             ELSE Infinity(a.s * b.s)
      [] OTHER -> RoundTo(Num(a.s * b.s, a.m * b.m, a.e + b.e), p)

Top(x) == x.e + BitLen(x.m)

\* a + b, rounded to p bits.  When one operand lies wholly below half a unit
\* in the last place of the other, the sum rounds to the other.
FAdd(a, b, p) ==
    CASE a.k = "nan" \/ b.k = "nan" -> NaN
      [] a.k = "inf" /\ b.k = "inf" -> IF a.s = b.s THEN a ELSE NaN
      [] a.k = "inf" -> a
      [] b.k = "inf" -> b
      [] a.m = 0 /\ b.m = 0 -> Num(IF a.s = b.s THEN a.s ELSE 1, 0, 0)
      [] a.m = 0 -> RoundTo(b, p)
      [] b.m = 0 -> RoundTo(a, p)
      [] Top(a) - Top(b) > p + 2 -> RoundTo(a, p)
      [] Top(b) - Top(a) > p + 2 -> RoundTo(b, p)
      [] OTHER ->
             LET e == IF a.e < b.e THEN a.e ELSE b.e
                 v == a.s * a.m * 2 ^ (a.e - e) + b.s * b.m * 2 ^ (b.e - e)
             IN IF v = 0
                THEN Num(1, 0, 0)
                ELSE RoundTo(Num(IF v < 0 THEN -1 ELSE 1, IF v < 0 THEN -v ELSE v, e), p)

\* The bits of the number n, each moved up by d places.
BitsOf(n, d) ==
    {b \in Word : b - d >= 0 /\ b - d < BitLen(n) /\ (n \div (2 ^ (b - d))) % 2 = 1}

\* m / 2^sh rounded to nearest, ties to even.
ShiftRightRounded(m, sh) ==
    IF sh > BitLen(m)
    THEN 0
    ELSE LET q == m \div (2 ^ sh)
             r == m % (2 ^ sh)
             half == 2 ^ (sh - 1)
         IN IF r > half \/ (r = half /\ q % 2 = 1) THEN q + 1 ELSE q

\* The pattern of a float of the format with `eb` exponent bits and `fb`
\* fraction bits (8, 23 for f32; 11, 52 for f64).  A NaN is the quiet NaN
\* with an empty payload.
FloatBits(x, eb, fb) ==
    LET sign == IF x.s = -1 THEN {eb + fb} ELSE {}
        expAll == {b \in Word : b >= fb /\ b < fb + eb}
        bias == 2 ^ (eb - 1) - 1
    IN CASE x.k = "nan" -> Or(expAll, {fb - 1})
         [] x.k = "inf" -> Or(expAll, sign)
         [] x.m = 0 -> sign
         [] OTHER ->
                LET L == BitLen(x.m)
                    E == x.e + L - 1 + bias
                    d == x.e - (1 - bias - fb)
                IN IF E >= 2 ^ eb - 1
                   THEN Or(expAll, sign)
                   ELSE IF E <= 0
                   THEN \* below the normal range: a multiple of 2^(1 - bias - fb)
                        Or(sign, IF d >= 0
                                 THEN BitsOf(x.m, d)
                                 ELSE BitsOf(ShiftRightRounded(x.m, -d), 0))
                   ELSE {b \in Word :
                            \/ b \in sign
                            \/ b >= fb /\ b < fb + eb /\ (E \div (2 ^ (b - fb))) % 2 = 1
                            \/ /\ b < fb
                               /\ b - (fb - (L - 1)) >= 0
                               /\ b - (fb - (L - 1)) < L - 1
                               /\ (x.m \div (2 ^ (b - (fb - (L - 1))))) % 2 = 1}

\* f32::from_bits / f64::from_bits read back as a number.
FloatOfBits(bits, eb, fb) ==
    LET s == IF (eb + fb) \in bits THEN -1 ELSE 1
        E == SumBits({b \in bits : b >= fb /\ b < fb + eb}, fb)
        frac == {b \in bits : b < fb}
        bias == 2 ^ (eb - 1) - 1
    IN CASE E = 2 ^ eb - 1 -> IF frac = {} THEN Infinity(s) ELSE NaN
         [] E = 0 ->
                IF frac = {}
                THEN Num(s, 0, 0)
                ELSE LET x == NumOfBits(s, frac)
                     IN Num(s, x.m, x.e + 1 - bias - fb)
         [] OTHER ->
                LET x == NumOfBits(s, frac \cup {fb})
                IN Num(s, x.m, x.e + E - bias - fb)

F32Bits(x) == FloatBits(RoundTo(x, 24), 8, 23)

F64Bits(x) == FloatBits(RoundTo(x, 53), 11, 52)

F32Of(bits) == FloatOfBits(bits, 8, 23)

F64Of(bits) == FloatOfBits(bits, 11, 52)

\* v as f64, for an i64 pattern v
i64_as_f64(v) ==
    IF (WordBits - 1) \in v
    THEN LET low == MinOf(v)
         IN RoundTo(NumOfBits(-1, {b \in Word : b = low \/ (b > low /\ b \notin v)}), 53)
    ELSE RoundTo(NumOfBits(1, v), 53)

\* x as f32, for an f64 x
f64_as_f32(x) == RoundTo(x, 24)

unwrap_or(x, default) == IF is_some(x) THEN x ELSE default

\* apply_numeric_modifiers that adds the offset before it scales.
apply_numeric_modifiers_OffsetFirst(value, scale_opt, offset_opt) ==
    IF ~is_some(scale_opt) /\ ~is_some(offset_opt)
    THEN TOk(value)
    ELSE LET scale == unwrap_or(scale_opt, Num(1, 1, 0))
             offset == unwrap_or(offset_opt, Num(1, 0, 0))
         IN CASE value.tag = "Int" ->
                     TOk(Value_Float64(F64Bits(
                         FMul(FAdd(i64_as_f64(value.bits), offset, 53), scale, 53))))
              [] value.tag = "Float32" ->
                     TOk(Value_Float32(F32Bits(
                         FMul(FAdd(F32Of(value.bits), f64_as_f32(offset), 24),
                              f64_as_f32(scale), 24))))
              [] value.tag = "Float64" ->
                     TOk(Value_Float64(F64Bits(
                         FMul(FAdd(F64Of(value.bits), offset, 53), scale, 53))))
              [] OTHER -> TOk(value)

apply_numeric_modifiers(value, scale_opt, offset_opt) ==
    IF ~is_some(scale_opt) /\ ~is_some(offset_opt)
    THEN TOk(value)
    ELSE LET scale == unwrap_or(scale_opt, Num(1, 1, 0))
             offset == unwrap_or(offset_opt, Num(1, 0, 0))
         IN CASE value.tag = "Int" ->
                     TOk(Value_Float64(F64Bits(
                         FAdd(FMul(i64_as_f64(value.bits), scale, 53), offset, 53))))
              [] value.tag = "Float32" ->
                     TOk(Value_Float32(F32Bits(
                         FAdd(FMul(F32Of(value.bits), f64_as_f32(scale), 24),
                              f64_as_f32(offset), 24))))
              [] value.tag = "Float64" ->
                     TOk(Value_Float64(F64Bits(
                         FAdd(FMul(F64Of(value.bits), scale, 53), offset, 53))))
              [] OTHER -> TOk(value)

apply_scalar(self, raw_value) ==
    LET v1 == reinterpret_base(self.base, raw_value)
    IN IF ~v1.ok
       THEN v1
       ELSE LET v2 == apply_numeric_modifiers(v1.val, self.scale, self.offset)
            IN IF ~v2.ok
               THEN v2
               ELSE LET v3 == apply_enum(v2.val, self.enum_map)
                    IN IF ~v3.ok
                       THEN v3
                       ELSE apply_string(v3.val, self.encoding, self.zero_terminated,
                                         self.trim)

RECURSIVE apply_loop(_, _, _)
apply_loop(self, values, out_values) ==
    IF values = <<>>
    THEN TOk(Value_Array(out_values))
    ELSE LET r == apply_scalar(self, values[1])
         IN IF ~r.ok
            THEN r
            ELSE apply_loop(self, Tail(values), Append(out_values, r.val))

Transform_apply(self, raw_value) ==
    LET valid == validate(self)
    IN IF ~valid.ok
       THEN valid
       ELSE IF self.base = "Bytes"
       THEN LET bytes == extract_bytes(raw_value)
            IN IF ~bytes.ok
               THEN bytes
               ELSE apply_string(Value_Bytes(bytes.val), self.encoding,
                                 self.zero_terminated, self.trim)
       ELSE IF raw_value.tag = "Array"
       THEN apply_loop(self, raw_value.elems, <<>>)
       ELSE apply_scalar(self, raw_value)

\* value_to_transform_value that saturates a U64 above i64::MAX.
RECURSIVE value_to_transform_value_Saturating(_)
value_to_transform_value_Saturating(v) ==
    CASE v.tag = "U64" ->
             Value_Int(IF (WordBits - 1) \in v.bits THEN Mask(WordBits - 1) ELSE v.bits)
      [] v.tag = "I64" -> Value_Int(v.bits)
      [] v.tag = "Array" ->
             Value_Array([i \in 1 .. Len(v.elems) |->
                             value_to_transform_value_Saturating(v.elems[i])])

RECURSIVE value_to_transform_value(_)
value_to_transform_value(v) ==
    CASE v.tag = "U64" -> Value_Int(v.bits)
      [] v.tag = "I64" -> Value_Int(v.bits)
      [] v.tag = "Array" ->
             Value_Array([i \in 1 .. Len(v.elems) |-> value_to_transform_value(v.elems[i])])

\* Option<Transform>: the entry of a field in the adapter's transforms map.
NoTransform == [some |-> FALSE, t |-> Transform_new("Int")]

SomeTransform(t) == [some |-> TRUE, t |-> t]

\* WasmSchema::apply_transform
apply_transform(tr, value) ==
    IF tr.some
    THEN Transform_apply(tr.t, value)
    ELSE TOk(value_to_transform_value(value))

\* --------------------------------------------- bitcraft-wasm: convert.rs

\* The UTF-8 bytes of the field names the JSON definitions use.
name_utf8(name) ==
    CASE name = "" -> <<>>
      [] name = " " -> <<32>>
      [] name = "id" -> <<105, 100>>
      [] name = " id" -> <<32, 105, 100>>

\* def.name.trim().is_empty()
name_trim_is_empty(name) == trim(name_utf8(name)) = <<>>

fragment_def_to_fragment(def) ==
    IF def.len_bits = 0
    THEN Err("InvalidFragment")
    ELSE Ok([offset_bits |-> def.offset_bits,
             len_bits |-> def.len_bits,
             bit_order |-> CASE def.bit_order = "LsbFirst" -> "LsbFirst"
                             [] def.bit_order = "MsbFirst" -> "MsbFirst"
                             [] OTHER -> "MsbFirst"])

\* def.fragments.iter().map(fragment_def_to_fragment).collect::<Result<Vec<_>, _>>()
RECURSIVE fragment_defs_collect(_, _)
fragment_defs_collect(defs, out) ==
    IF defs = <<>>
    THEN Ok(out)
    ELSE LET f == fragment_def_to_fragment(defs[1])
         IN IF ~f.ok THEN f ELSE fragment_defs_collect(Tail(defs), Append(out, f.val))

assemble_def_to_core(def) ==
    CASE def = "ConcatMsb" -> "ConcatMsb"
      [] def = "ConcatLsb" -> "ConcatLsb"

\* field_def_to_field that takes any name.
field_def_to_field_NameUnchecked(def) ==
    IF def.fragments = <<>>
    THEN Err("InvalidFieldSize")
    ELSE IF def.kind = "Array" /\ def.spec.count = 0
         THEN Err("InvalidArrayCount")
         ELSE IF def.kind = "Array" /\ def.spec.stride_bits = 0
              THEN Err("InvalidArrayStride")
              ELSE LET fragments == fragment_defs_collect(def.fragments, <<>>)
                   IN IF ~fragments.ok
                      THEN fragments
                      ELSE Ok([name |-> def.name,
                               kind |-> def.kind,
                               spec |-> def.spec,
                               signed |-> def.signed,
                               assemble |-> assemble_def_to_core(def.assemble),
                               fragments |-> fragments.val])

field_def_to_field(def) ==
    IF name_trim_is_empty(def.name)
    THEN Err("InvalidFieldName")
    ELSE IF def.fragments = <<>>
         THEN Err("InvalidFieldSize")
         ELSE IF def.kind = "Array" /\ def.spec.count = 0
              THEN Err("InvalidArrayCount")
              ELSE IF def.kind = "Array" /\ def.spec.stride_bits = 0
                   THEN Err("InvalidArrayStride")
                   ELSE LET fragments == fragment_defs_collect(def.fragments, <<>>)
                        IN IF ~fragments.ok
                           THEN fragments
                           ELSE Ok([name |-> def.name,
                                    kind |-> def.kind,
                                    spec |-> def.spec,
                                    signed |-> def.signed,
                                    assemble |-> assemble_def_to_core(def.assemble),
                                    fragments |-> fragments.val])

\* for f in &def.fields { out.push(field_def_to_field(f)?) }
RECURSIVE schema_def_to_fields(_, _)
schema_def_to_fields(defs, out) ==
    IF defs = <<>>
    THEN Ok(out)
    ELSE LET f == field_def_to_field(defs[1])
         IN IF ~f.ok THEN f ELSE schema_def_to_fields(Tail(defs), Append(out, f.val))

write_config_def_to_write_config(def) ==
    CASE def = "MsbFirst" -> "MsbFirst"
      [] def = "LsbFirst" -> "LsbFirst"
      [] OTHER -> "None"

\* WasmSchema::new on a definition that deserializes; the definitions of the
\* model carry no transform, so `transforms` is the empty map.
WasmSchema_new(field_defs, write_config_def) ==
    LET wc == write_config_def_to_write_config(write_config_def)
        fs == schema_def_to_fields(field_defs, <<>>)
    IN IF ~fs.ok
       THEN fs
       ELSE LET sch == Schema_compile(fs.val, wc)
            IN IF ~sch.ok
               THEN sch
               ELSE Ok([schema |-> sch.val, transforms |-> <<>>])

\* ------------------------------------------------------ src/bit_reader.rs

\* `attempt to add with overflow`: the thread panics, no value is returned.
Panic == Err("panic")

\* a + b: a build with overflow checks panics when the sum does not fit, a
\* build without them wraps.
add(a, b, checks) ==
    IF add_overflows(a, b) /\ checks THEN Panic ELSE Ok(a + b)

\* A call's outcome: the reader after it and what it returned.
Outcome(self, result) == [self |-> self, result |-> result]

BitReader_new(d) == [data |-> d, bit_pos |-> 0]

\* self.data.get(byte_index): a usize of 2^64 + r, r < 0, divided by 8 is at
\* least 2^60, beyond every slice.
data_get(d, bit_pos) ==
    IF bit_pos < 0 \/ bit_pos \div 8 >= Len(d)
    THEN Err("OutOfBounds")
    ELSE Ok(d[(bit_pos \div 8) + 1])

BitReader_read_bit(self, checks) ==
    LET bit_index == usize_rem(self.bit_pos, 8)
        byte == data_get(self.data, self.bit_pos)
    IN IF ~byte.ok
       THEN Outcome(self, byte)
       ELSE LET next == add(self.bit_pos, 1, checks)
            IN IF ~next.ok
               THEN Outcome(self, next)
               ELSE Outcome([self EXCEPT !.bit_pos = next.val],
                            Ok((byte.val \div (2 ^ (7 - bit_index))) % 2))

\* for _ in 0..n { let bit = self.read_bit()? as u64; value = (value << 1) | bit; }
RECURSIVE BitReader_read_bits_loop(_, _, _, _)
BitReader_read_bits_loop(self, k, value, checks) ==
    IF k = 0
    THEN Outcome(self, Ok(value))
    ELSE LET bit == BitReader_read_bit(self, checks)
         IN IF ~bit.result.ok
            THEN bit
            ELSE LET next == Or(Shl(value, 1), BitAsWord(bit.result.val))
                 IN IF Now(next)
                    THEN BitReader_read_bits_loop(bit.self, k - 1, next, checks)
                    ELSE Outcome(self, Err(""))

BitReader_read_bits(self, n, checks) ==
    IF usize_lt(64, n)
    THEN Outcome(self, Err("TooManyBitsRead"))
    ELSE LET needed_bits == add(self.bit_pos, n, checks)
         IN IF ~needed_bits.ok
            THEN Outcome(self, needed_bits)
            ELSE IF usize_lt(Len(self.data) * 8, needed_bits.val)
                 THEN Outcome(self, Err("OutOfBounds"))
                 ELSE BitReader_read_bits_loop(self, n, {}, checks)

\* The temporary reader is dropped: self is as before.
BitReader_read_bits_at(self, bit_pos, n, checks) ==
    LET tmp == [data |-> self.data, bit_pos |-> bit_pos]
    IN Outcome(self, BitReader_read_bits(tmp, n, checks).result)

BitReader_skip_bits(self, n, checks) ==
    LET next == add(self.bit_pos, n, checks)
    IN IF ~next.ok
       THEN Outcome(self, next)
       ELSE Outcome([self EXCEPT !.bit_pos = next.val], Ok(<<>>))

BitReader_align_to(self, bits, checks) ==
    IF bits = 0
    THEN Outcome(self, Ok(<<>>))
    ELSE LET rem == usize_rem(self.bit_pos, bits)
         IN IF rem = 0
            THEN Outcome(self, Ok(<<>>))
            ELSE LET next == add(self.bit_pos, bits - rem, checks)
                 IN IF ~next.ok
                    THEN Outcome(self, next)
                    ELSE Outcome([self EXCEPT !.bit_pos = next.val], Ok(<<>>))

\* ------------------------------------------------------------------- inputs

\* The longest field list, the most fragments of a generated field, the
\* largest array count, and the bytes a buffer may have beyond the schema's need.
MaxFields == 2

MaxFrags == 2

MaxCount == 2

MaxExtra == 1

Frag(off, len, ord) == [offset_bits |-> off, len_bits |-> len, bit_order |-> ord]

ScalarField(name, signed, assemble, frags) ==
    [name |-> name, kind |-> "Scalar",
     spec |-> [count |-> 0, stride_bits |-> 0, offset_bits |-> 0],
     signed |-> signed, assemble |-> assemble, fragments |-> frags]

ArrayField(name, count, stride, off, signed, assemble, frags) ==
    [name |-> name, kind |-> "Array",
     spec |-> [count |-> count, stride_bits |-> stride, offset_bits |-> off],
     signed |-> signed, assemble |-> assemble, fragments |-> frags]

\* Sequences over S of length 0..n.
SeqUpTo(S, n) == UNION {[1 .. k -> S] : k \in 0 .. n}

\* Hand-written fields: the shapes of the repository's tests, the boundary
\* cases of every validation rule, and one field per way of being invalid.
PoolFields ==
    { ScalarField("id", FALSE, "ConcatMsb", <<Frag(0, 8, "MsbFirst")>>),
      ScalarField("val", TRUE, "ConcatLsb",
                  <<Frag(13, 3, "MsbFirst"), Frag(2, 11, "LsbFirst")>>),
      ScalarField("big", TRUE, "ConcatMsb",
                  <<Frag(3, 61, "MsbFirst"), Frag(0, 3, "MsbFirst")>>),
      ScalarField("", FALSE, "ConcatMsb", <<Frag(4, 4, "MsbFirst")>>),
      ArrayField("arr", 2, 8, 8, FALSE, "ConcatMsb", <<Frag(0, 4, "MsbFirst")>>),
      ArrayField("id", 1, 8, 0, FALSE, "ConcatMsb", <<Frag(8, 8, "MsbFirst")>>),
      ScalarField("none", FALSE, "ConcatMsb", <<>>),
      ScalarField("zero", FALSE, "ConcatMsb", <<Frag(0, 0, "MsbFirst")>>),
      ScalarField("wide", FALSE, "ConcatMsb",
                  <<Frag(0, 61, "MsbFirst"), Frag(61, 8, "MsbFirst")>>),
      ScalarField("over", FALSE, "ConcatLsb",
                  <<Frag(0, 61, "MsbFirst"), Frag(61, 0, "MsbFirst"),
                    Frag(61, 8, "MsbFirst")>>),
      ScalarField("hole", FALSE, "ConcatLsb",
                  <<Frag(0, 8, "MsbFirst"), Frag(8, 0, "MsbFirst")>>),
      ArrayField("cnt0", 0, 8, 0, FALSE, "ConcatMsb", <<Frag(0, 8, "MsbFirst")>>),
      ArrayField("strd", 2, 7, 0, FALSE, "ConcatMsb", <<Frag(0, 8, "MsbFirst")>>),
      ArrayField("both", 0, 7, 0, FALSE, "ConcatMsb", <<Frag(0, 8, "MsbFirst")>>),
      ArrayField("nofr", 1, 0, 0, FALSE, "ConcatMsb", <<>>) }

\* Generated single fields: every fragment list of up to MaxFrags fragments
\* with lengths 0, 3 or 61, as a scalar and as an array of every count up to
\* MaxCount with a stride below, at and above the 64-bit limit.
GenFrags == {Frag(o, l, "MsbFirst") : o \in {0}, l \in {0, 3, 61}}

GenFields ==
    LET fragLists == SeqUpTo(GenFrags, MaxFrags)
    IN {ScalarField("g", FALSE, "ConcatMsb", fl) : fl \in fragLists}
       \cup {ArrayField("g", c, st, 0, FALSE, "ConcatLsb", fl) :
                 c \in 0 .. MaxCount, st \in {2, 6, 64}, fl \in fragLists}

FieldLists == SeqUpTo(PoolFields, MaxFields) \cup {<<f>> : f \in GenFields}

\* Field shapes without positions, and the layouts that place them.
Shape(kind, signed, assemble, frags, count) ==
    [kind |-> kind, signed |-> signed, assemble |-> assemble, frags |-> frags,
     count |-> count]

ShapePool ==
    { Shape("Scalar", TRUE, "ConcatLsb", <<<<3, "LsbFirst">>, <<9, "MsbFirst">>>>, 0),
      Shape("Array", TRUE, "ConcatMsb", <<<<2, "MsbFirst">>, <<3, "LsbFirst">>>>, MaxCount),
      Shape("Scalar", FALSE, "ConcatLsb", <<<<40, "MsbFirst">>, <<24, "LsbFirst">>>>, 0) }

\* One single-fragment scalar of every width a field may have.
WidthShapes ==
    {Shape("Scalar", sg, "ConcatMsb", <<<<w, "MsbFirst">>>>, 0) :
         sg \in BOOLEAN, w \in 1 .. WordBits}

RECURSIVE ShapeLens(_)
ShapeLens(frags) == IF frags = <<>> THEN 0 ELSE frags[1][1] + ShapeLens(Tail(frags))

ShapeBits(sh) ==
    IF sh.kind = "Scalar" THEN ShapeLens(sh.frags) ELSE sh.count * ShapeLens(sh.frags)

RECURSIVE ShapesBits(_)
ShapesBits(shapes) ==
    IF shapes = <<>> THEN 0 ELSE ShapeBits(shapes[1]) + ShapesBits(Tail(shapes))

FieldNames == <<"f1", "f2", "f3", "f4", "f5">>

\* Fragment k of a shape placed `dense` (one after the other from `base`),
\* `reverse` (the last defined fragment first) or `gap` (2 unused bits before
\* every fragment).
PlaceFrags(frags, base, mode) ==
    [k \in 1 .. Len(frags) |->
        Frag(CASE mode = "reverse" ->
                      base + ShapeLens(SubSeq(frags, k + 1, Len(frags)))
               [] mode = "gap" ->
                      base + ShapeLens(SubSeq(frags, 1, k - 1)) + 2 * k
               [] OTHER ->
                      base + ShapeLens(SubSeq(frags, 1, k - 1)),
             frags[k][1], frags[k][2])]

\* Field i of the list at bit `pos`.  An array's element has its fragments
\* placed from 0 and the array's offset_bits is `pos`; in `gap` the stride is
\* 3 bits wider than the element.
PlaceField(sh, name, pos, mode) ==
    IF sh.kind = "Scalar"
    THEN ScalarField(name, sh.signed, sh.assemble, PlaceFrags(sh.frags, pos, mode))
    ELSE ArrayField(name, sh.count,
                    ShapeLens(sh.frags) + (IF mode = "gap" THEN 3 ELSE 0),
                    pos, sh.signed, sh.assemble,
                    PlaceFrags(sh.frags, 0, IF mode = "gap" THEN "gap" ELSE "dense"))

Layout(shapes, mode) ==
    [i \in 1 .. Len(shapes) |->
        PlaceField(shapes[i],
                   IF mode = "dense_dup" THEN FieldNames[1] ELSE FieldNames[i],
                   CASE mode = "reverse" ->
                            ShapesBits(SubSeq(shapes, i + 1, Len(shapes)))
                     [] mode = "gap" ->
                            ShapesBits(SubSeq(shapes, 1, i - 1)) + 11 * (i - 1)
                     [] OTHER ->
                            ShapesBits(SubSeq(shapes, 1, i - 1)),
                   mode)]

WriteConfigs == {"None", "MsbFirst", "LsbFirst"}

\* <<fields, write_config>>: the dense layouts under every write configuration,
\* the other layouts and the single-width schemas without one.
LayoutInputs ==
    LET lists == SeqUpTo(ShapePool, MaxFields)
    IN {<<Layout(shapes, mode), wc>> :
            shapes \in lists, mode \in {"dense", "dense_dup"}, wc \in WriteConfigs}
       \cup {<<Layout(shapes, mode), "None">> :
                 shapes \in lists, mode \in {"gap", "reverse"}}
       \cup {<<Layout(<<sh>>, "dense"), "None">> : sh \in WidthShapes}

\* Buffers: byte i (from 0) is (a + i*b) mod 256 for a seed <<a, b>>.  The
\* seeds give all-zero and all-one buffers and the buffers of the tests.
ByteSeeds == {<<0, 0>>, <<255, 0>>, <<193, 196>>, <<64, 64>>}

Buffer(seed, n) == [i \in 1 .. n |-> (seed[1] + (i - 1) * seed[2]) % 256]

NeedBytes(total_bits) == (total_bits + 7) \div 8

\* Buffers one byte short of, exactly at, and up to MaxExtra bytes beyond the
\* schema's need.
Buffers(sch) ==
    LET need == NeedBytes(sch.total_bits)
    IN {Buffer(seed, n) : seed \in ByteSeeds,
                          n \in {k \in (need - 1) .. (need + MaxExtra) : k >= 0}}

\* Values that fit a compiled scalar: a seed pattern cut to total_bits, and
\* sign-extended from bit total_bits-1 when the scalar is signed.
ValueSeeds == {{}, Word, {0, 3, 4, 6, 9, 11, 31, 60, 62}}

FitValue(scalar, seed) ==
    LET low == seed \cap Mask(scalar.total_bits)
    IN IF scalar.signed
       THEN I64(IF (scalar.total_bits - 1) \in low
                THEN low \cup (scalar.total_bits .. (WordBits - 1))
                ELSE low)
       ELSE U64(low)

\* An array value takes element i from the seed shifted right by 5*i bits.
FieldValues(field) ==
    IF field.kind = "Scalar"
    THEN {FitValue(field.scalar, sd) : sd \in ValueSeeds}
    ELSE {Array([i \in 1 .. field.count |-> FitValue(field.scalar, Shr(sd, 5 * i))]) :
              sd \in ValueSeeds}

\* The value maps that give every field a fitting value (the last field of a
\* name decides when a name occurs twice).
RECURSIVE FitMaps(_)
FitMaps(cfs) ==
    IF cfs = <<>>
    THEN {<<>>}
    ELSE LET n == Len(cfs)
         IN {MapInsert(m, cfs[n].name, v) :
                 m \in FitMaps(SubSeq(cfs, 1, n - 1)), v \in FieldValues(cfs[n])}

\* The value of a field cut from one seed.
SeedValue(field, sd) ==
    IF field.kind = "Scalar"
    THEN FitValue(field.scalar, sd)
    ELSE Array([i \in 1 .. field.count |-> FitValue(field.scalar, Shr(sd, 5 * i))])

RECURSIVE SeedMap(_, _)
SeedMap(cfs, sd) ==
    IF cfs = <<>>
    THEN <<>>
    ELSE LET n == Len(cfs)
         IN MapInsert(SeedMap(SubSeq(cfs, 1, n - 1), sd), cfs[n].name, SeedValue(cfs[n], sd))

BaseSeed == {0, 3, 4, 6, 9, 11, 31, 60, 62}

\* Values of the wrong shape for a field: an Array for a scalar; a scalar, an
\* Array one too long or one too short, or an Array holding an Array for an array.
WrongShapes(field) ==
    IF field.kind = "Scalar"
    THEN {Array(<<>>), Array(<<U64({0})>>)}
    ELSE LET good == SeedValue(field, BaseSeed).elems
         IN {U64({0}), I64(Word),
             Array(Append(good, good[1])),
             Array(Tail(good)),
             Array([good EXCEPT ![1] = Array(<<>>)])}

MisshapenMaps(cfs) ==
    {[SeedMap(cfs, BaseSeed) EXCEPT ![cfs[i].name] = w] :
         i \in 1 .. Len(cfs), w \in UNION {WrongShapes(cfs[k]) : k \in 1 .. Len(cfs)}}

Without(m, names) == [n \in (DOMAIN m) \ names |-> m[n]]

\* Maps that lack entries or hold a value of the wrong shape.
BadMaps(cfs) ==
    IF cfs = <<>>
    THEN {}
    ELSE MisshapenMaps(cfs)
         \cup {Without(SeedMap(cfs, BaseSeed), D) :
                   D \in (SUBSET {cfs[i].name : i \in 1 .. Len(cfs)}) \ {{}}}
         \cup {Without(m, {cfs[i].name}) : m \in MisshapenMaps(cfs), i \in 1 .. Len(cfs)}

\* ---- inputs of the transforms

\* The longest raw array given to a transform.
MaxBytes == 3

\* The pattern of a small natural number.
Pat(n) == BitsOf(n, 0)

\* {1: "ON", 2: "OFF", -1: "ERR"}
EnumMapPool ==
    SomeEnumMap([key \in {Pat(1), Pat(2), Word} |->
                    CASE key = Pat(1) -> <<79, 78>>
                      [] key = Pat(2) -> <<79, 70, 70>>
                      [] OTHER -> <<69, 82, 82>>])

Bases == {"Int", "Float32", "Float64", "Bytes"}

Encodings == {"None", "Utf8", "Ascii"}

OptionBool == {"None", "true", "false"}

\* Every base with every use of scale (absent, 2.0, NaN, infinity), offset
\* (absent, 1.0), encoding and enum_map, valid or not.
ConfigTransforms ==
    {[Transform_new(base) EXCEPT !.scale = sc, !.offset = off, !.encoding = enc,
                                 !.enum_map = em] :
         base \in Bases, sc \in {NoF64, Num(1, 2, 0), NaN, Infinity(1)},
         off \in {NoF64, Num(1, 1, 0)},
         enc \in Encodings, em \in {NoEnumMap, EnumMapPool}}

\* Base Bytes with every setting of the string options.
StringTransforms ==
    {[Transform_new("Bytes") EXCEPT !.encoding = enc, !.zero_terminated = zt, !.trim = tr] :
         enc \in Encodings, zt \in OptionBool, tr \in OptionBool}

\* The numeric bases with scale in {2, 1, -3, 0.5} and offset in {1, -10, 0, 0.25}.
NumericTransforms ==
    {[Transform_new(base) EXCEPT !.scale = sc, !.offset = off] :
         base \in {"Int", "Float32", "Float64"},
         sc \in {NoF64, Num(1, 2, 0), Num(1, 1, 0), Num(-1, 3, 0), Num(1, 1, -1)},
         off \in {NoF64, Num(1, 1, 0), Num(-1, 10, 0), Num(1, 0, 0), Num(1, 1, -2)}}

\* The numeric bases with a NaN or infinite offset, the scale absent or 2.0.
OffsetTransforms ==
    {[Transform_new(base) EXCEPT !.scale = sc, !.offset = off] :
         base \in {"Int", "Float32", "Float64"},
         sc \in {NoF64, Num(1, 2, 0)},
         off \in {NaN, Infinity(1), Infinity(-1)}}

Transforms ==
    {NoTransform}
    \cup {SomeTransform(t) : t \in ConfigTransforms \cup StringTransforms
                                    \cup NumericTransforms \cup OffsetTransforms}

\* 1.5f32 (0x3FC00000), pi as f32 (0x40490FDB), -0.0f32, and 1.5f32 below set
\* high bits.
F32Patterns == {Pat(1069547520), Pat(1078530011), {31}, Or(Pat(1069547520), {40, 63})}

\* 1.5 (0x3FF8000000000000), -2.0 (0xC000000000000000), 0.0
F64Patterns == {{51, 52, 53, 54, 55, 56, 57, 58, 59, 60, 61}, {62, 63}, {}}

\* 10, 0, 1, 3, -1, -2^63 as I64; 10, 1, 2^64 - 1, 2^63 as U64.
IntRaws ==
    {I64(Pat(10)), I64({}), I64(Pat(1)), I64(Pat(3)), I64(Word), I64({63}),
     U64(Pat(10)), U64(Pat(1)), U64(Word), U64({63})}

\* NUL, space, 'A', and the two bytes of U+00E9.
BytePool == {0, 32, 65, 195, 169}

ByteRaws == {Array([i \in 1 .. Len(bs) |-> U64(Pat(bs[i]))]) : bs \in SeqUpTo(BytePool, MaxBytes)}

\* Arrays whose elements are bytes, too large, negative, or not integers.
MixedRaws ==
    {Array(vs) : vs \in SeqUpTo({U64(Pat(65)), I64(Pat(200)), U64(Pat(300)), I64(Word),
                                  Array(<<>>)}, MaxBytes)}

\* Arrays for the numeric bases: empty, of values the base accepts, with an
\* element the base rejects, and with an Array as element.
ArrayRaws(base) ==
    LET good == CASE base = "Float32" -> <<U64(Pat(1069547520)), U64(Pat(1078530011))>>
                  [] base = "Float64" -> <<U64({51, 52, 53, 54, 55, 56, 57, 58, 59, 60, 61}),
                                           U64({62, 63})>>
                  [] OTHER -> <<I64(Pat(10)), U64(Pat(1)), I64(Word), U64(Pat(3))>>
    IN {Array(<<>>), Array(good), Array(Append(good, I64({}))),
        Array(<<good[1], Array(<<good[2]>>)>>)}

\* The raw values a transform is given.
Raws(tr) ==
    CASE ~tr.some -> IntRaws \cup ArrayRaws("Int")
      [] tr.t.base = "Bytes" ->
             IF tr.t.zero_terminated = "None" /\ tr.t.trim = "None"
             THEN ByteRaws \cup MixedRaws \cup {U64(Pat(65)), I64(Word)}
             ELSE ByteRaws
      [] tr.t.base = "Int" -> IntRaws \cup ArrayRaws("Int")
      [] tr.t.base = "Float32" ->
             {U64(p) : p \in F32Patterns} \cup {I64(Pat(1069547520)), I64({})}
             \cup ArrayRaws("Float32")
      [] OTHER ->
             {U64(p) : p \in F64Patterns} \cup {I64({62, 63}), I64({})}
             \cup ArrayRaws("Float64")

\* ---- JSON definitions

\* The names of the JSON definitions: empty, white space only, plain, and with
\* white space around.
AdapterNames == {"", " ", "id", " id"}

\* Definitions the adapter and the core judge alike and differently: valid
\* ones, one over 64 bits, one without fragments, one with an empty fragment,
\* and arrays with count 0 and with stride 0.
AdapterShapes ==
    { ScalarField("x", FALSE, "ConcatMsb", <<Frag(0, 8, "MsbFirst")>>),
      ArrayField("x", 2, 8, 8, FALSE, "ConcatLsb", <<Frag(0, 4, "LsbFirst")>>),
      ScalarField("x", FALSE, "ConcatMsb",
                  <<Frag(0, 61, "MsbFirst"), Frag(61, 8, "MsbFirst")>>),
      ScalarField("x", FALSE, "ConcatMsb", <<>>),
      ScalarField("x", TRUE, "ConcatMsb",
                  <<Frag(0, 8, "MsbFirst"), Frag(8, 0, "MsbFirst")>>),
      ArrayField("x", 0, 8, 0, FALSE, "ConcatMsb", <<Frag(0, 8, "MsbFirst")>>),
      ArrayField("x", 1, 0, 0, FALSE, "ConcatMsb", <<Frag(0, 8, "MsbFirst")>>) }

AdapterDefs == {[f EXCEPT !.name = n] : f \in AdapterShapes, n \in AdapterNames}

\* ---- BitReader inputs

\* The largest distance of the cursor from 0 (upwards) or from 2^64
\* (downwards) the calls on a reader may reach.
MaxCursor == 16

\* The buffer of the tests, one of mixed bits, and one long enough for a read
\* of 64 bits that does not start at bit 0.
ReaderBuffers == {<<255>>, <<178>>, Buffer(<<193, 196>>, 9)}

\* usize arguments: bit counts around the limits 0, 8 and 64, and usize::MAX.
BitCounts == {0, 1, 3, 9, 64, 65, -1}

\* Positions inside, at the end of and beyond the buffers, and up to usize::MAX.
BitPositions == {0, 5, 8, 72, -64, -1}

SkipCounts == {0, 5, -8, -1}

Alignments == {0, 3, 8, -1}

\* ------------------------------------------------------------ state machine

NotRun == Err("NotRun")

TNotRun == TErr("NotRun")

NoTransformRun ==
    /\ transform = NoTransform
    /\ field_value = U64({})
    /\ transformed_value = TNotRun

\* The threads that share one schema and one transform.
Threads == {1, 2}

IdleCall == [pc |-> "idle", fn |-> "none", input |-> <<>>, idx |-> 0, result |-> NotRun]

\* The locals of a call: the map of parse, the bits of serialize, the out of
\* apply.
NoLocals == [map |-> <<>>, bits |-> <<>>, out |-> <<>>]

NoCalls ==
    /\ calls = [t \in Threads |-> IdleCall]
    /\ locals = [t \in Threads |-> NoLocals]

\* No WasmSchema built.
NoWasmSchema == wasm_schema = NotRun

\* BitReader::new(&[]) in a build without overflow checks, nothing called.
NoReader ==
    /\ reader = [data |-> <<>>, bit_pos |-> 0]
    /\ reader_call = [fn |-> "new", bit_pos |-> 0, n |-> 0, result |-> NotRun]
    /\ overflow_checks = FALSE


InitRest ==
    /\ NoTransformRun
    /\ NoCalls
    /\ NoWasmSchema
    /\ NoReader
    /\ schema = NotRun
    /\ data = <<>>
    /\ parsed = NotRun
    /\ obj = <<>>
    /\ serialized = NotRun
    /\ op = "new"

Init ==
    /\ fields \in FieldLists
    /\ write_config \in {"None"}
    /\ InitRest

\* Schema::compile(&fields, write_config)
Compile ==
    /\ op = "new"
    /\ schema' = Schema_compile(fields, write_config)
    /\ op' = "compile"
    /\ UNCHANGED <<fields, write_config, data, parsed, obj, serialized>>
    /\ UNCHANGED tvars

\* schema.parse(&d)
Parse ==
    /\ op = "compile"
    /\ schema.ok
    /\ \E d \in Buffers(schema.val) :
          /\ data' = d
          /\ parsed' = Schema_parse(schema.val, d)
    /\ op' = "parse"
    /\ UNCHANGED <<fields, write_config, schema, obj, serialized>>
    /\ UNCHANGED tvars

\* schema.serialize(&o)
Serialize ==
    /\ op = "compile"
    /\ schema.ok
    /\ \E o \in FitMaps(schema.val.fields) \cup BadMaps(schema.val.fields) :
          /\ obj' = o
          /\ serialized' = Schema_serialize(schema.val, o)
    /\ op' = "serialize"
    /\ UNCHANGED <<fields, write_config, schema, data, parsed>>
    /\ UNCHANGED tvars

\* schema.serialize(&schema.parse(&data)?)
SerializeParsed ==
    /\ op = "parse"
    /\ parsed.ok
    /\ obj' = parsed.val
    /\ serialized' = Schema_serialize(schema.val, parsed.val)
    /\ op' = "parse_serialize"
    /\ UNCHANGED <<fields, write_config, schema, data, parsed>>
    /\ UNCHANGED tvars

\* schema.parse(&schema.serialize(&obj)?)
ParseSerialized ==
    /\ op = "serialize"
    /\ serialized.ok
    /\ data' = serialized.val
    /\ parsed' = Schema_parse(schema.val, serialized.val)
    /\ op' = "serialize_parse"
    /\ UNCHANGED <<fields, write_config, schema, obj, serialized>>
    /\ UNCHANGED tvars

Next ==
    \/ Compile
    \/ Parse
    \/ Serialize
    \/ SerializeParsed
    \/ ParseSerialized

Spec == Init /\ [][Next]_vars

\* Schemas of valid fields in every layout, under every write configuration.
InitLayout ==
    /\ \E in \in LayoutInputs :
          /\ fields = in[1]
          /\ write_config = in[2]
    /\ InitRest

SpecLayout == InitLayout /\ [][Next]_vars

\* A field's transform, or none, applied to one raw value.
InitTransform ==
    /\ transform \in Transforms
    /\ field_value = U64({})
    /\ transformed_value = TNotRun
    /\ NoCalls
    /\ NoWasmSchema
    /\ NoReader
    /\ fields = <<>>
    /\ write_config = "None"
    /\ schema = NotRun
    /\ data = <<>>
    /\ parsed = NotRun
    /\ obj = <<>>
    /\ serialized = NotRun
    /\ op = "new"

\* self.apply_transform(name, value)
ApplyTransform ==
    /\ op = "new"
    /\ \E r \in Raws(transform) :
          /\ field_value' = r
          /\ transformed_value' = apply_transform(transform, r)
    /\ op' = "apply"
    /\ UNCHANGED <<fields, write_config, schema, data, parsed, obj, serialized,
                   transform, calls, locals>>
    /\ UNCHANGED rvars

NextTransform == ApplyTransform

SpecTransform == InitTransform /\ [][NextTransform]_vars

\* ---- the JSON adapter

\* One list of definitions, given to the core and to the adapter.
InitAdapter ==
    /\ fields \in SeqUpTo(AdapterDefs, MaxFields)
    /\ write_config \in {"None"}
    /\ InitRest

\* WasmSchema::new(schema_json)
WasmNew ==
    /\ op = "new"
    /\ wasm_schema' = WasmSchema_new(fields, write_config)
    /\ op' = "wasm_new"
    /\ UNCHANGED <<fields, write_config, schema, data, parsed, obj, serialized,
                   transform, field_value, transformed_value, calls, locals,
                   reader, reader_call, overflow_checks>>

NextAdapter ==
    \/ Compile
    \/ WasmNew

SpecAdapter == InitAdapter /\ [][NextAdapter]_vars

\* ---- a BitReader and the calls on it

\* BitReader::new(&data), in a build with or without overflow checks.
InitReader ==
    /\ \E d \in ReaderBuffers : reader = BitReader_new(d)
    /\ overflow_checks \in BOOLEAN
    /\ reader_call = [fn |-> "new", bit_pos |-> 0, n |-> 0, result |-> NotRun]
    /\ NoTransformRun
    /\ NoCalls
    /\ NoWasmSchema
    /\ fields = <<>>
    /\ write_config = "None"
    /\ schema = NotRun
    /\ data = <<>>
    /\ parsed = NotRun
    /\ obj = <<>>
    /\ serialized = NotRun
    /\ op = "reader"

\* The reader and the record of the call after it; a panic ends the program.
Called(fn, bit_pos, n, out) ==
    /\ out.self.bit_pos >= -MaxCursor
    /\ out.self.bit_pos <= MaxCursor
    /\ reader' = out.self
    /\ reader_call' = [fn |-> fn, bit_pos |-> bit_pos, n |-> n, result |-> out.result]
    /\ op' = IF out.result = Panic THEN "panicked" ELSE "reader"
    /\ UNCHANGED <<fields, write_config, schema, data, parsed, obj, serialized,
                   transform, field_value, transformed_value, calls, locals,
                   wasm_schema, overflow_checks>>

\* reader.read_bits(n)
ReadBits ==
    /\ op = "reader"
    /\ \E n \in BitCounts :
          Called("read_bits", reader.bit_pos, n,
                 BitReader_read_bits(reader, n, overflow_checks))

\* reader.read_bits_at(bit_pos, n)
ReadBitsAt ==
    /\ op = "reader"
    /\ \E bit_pos \in BitPositions, n \in BitCounts :
          Called("read_bits_at", bit_pos, n,
                 BitReader_read_bits_at(reader, bit_pos, n, overflow_checks))

\* reader.skip_bits(n)
SkipBits ==
    /\ op = "reader"
    /\ \E n \in SkipCounts :
          Called("skip_bits", reader.bit_pos, n,
                 BitReader_skip_bits(reader, n, overflow_checks))

\* reader.align_to(bits)
AlignTo ==
    /\ op = "reader"
    /\ \E bits \in Alignments :
          Called("align_to", reader.bit_pos, bits,
                 BitReader_align_to(reader, bits, overflow_checks))

NextReader ==
    \/ ReadBits
    \/ ReadBitsAt
    \/ SkipBits
    \/ AlignTo

SpecReader == InitReader /\ [][NextReader]_vars

\* ---- one schema and one transform shared by the threads

\* The schemas and transforms the threads share.
SharedInputs ==
    {<<<<ScalarField("id", FALSE, "ConcatMsb", <<Frag(0, 8, "MsbFirst")>>),
         ArrayField("arr", 2, 8, 8, FALSE, "ConcatMsb", <<Frag(0, 4, "MsbFirst")>>)>>,
       "None">>,
     <<<<ScalarField("val", TRUE, "ConcatLsb",
                     <<Frag(13, 3, "MsbFirst"), Frag(2, 11, "LsbFirst")>>),
         ScalarField("id", FALSE, "ConcatMsb", <<Frag(0, 8, "MsbFirst")>>)>>,
       "LsbFirst">>}

SharedTransforms ==
    {SomeTransform([Transform_new("Int") EXCEPT !.scale = Num(1, 2, 0),
                                               !.offset = Num(1, 1, 0)]),
     SomeTransform([Transform_new("Int") EXCEPT !.enum_map = EnumMapPool])}

\* What the threads call parse, serialize and apply with.
SharedBuffers ==
    {Buffer(<<193, 196>>, n) :
         n \in {NeedBytes(schema.val.total_bits) - 1, NeedBytes(schema.val.total_bits)}}

SharedMaps ==
    {SeedMap(schema.val.fields, BaseSeed),
     Without(SeedMap(schema.val.fields, BaseSeed), {schema.val.fields[2].name})}

SharedRaws == {I64(Pat(10)), Array(<<I64(Pat(1)), U64(Pat(2)), I64(Word), U64(Pat(3))>>)}

\* The frame that holds the locals of thread t's call (`let mut map`,
\* `let mut bits`, `let mut out`): every call has its own.
slot_Shared(t) == 1

slot(t) == t

Local(t) == locals[slot(t)]

Running(fn, input) ==
    [pc |-> "running", fn |-> fn, input |-> input, idx |-> 1, result |-> NotRun]

Done(fn, input, result) ==
    [pc |-> "done", fn |-> fn, input |-> input, idx |-> 0, result |-> result]

\* The schema is compiled, the transform built; no call is in progress.
InitShared ==
    /\ \E in \in SharedInputs :
          /\ fields = in[1]
          /\ write_config = in[2]
          /\ schema = Schema_compile(in[1], in[2])
    /\ transform \in SharedTransforms
    /\ NoCalls
    /\ NoWasmSchema
    /\ NoReader
    /\ field_value = U64({})
    /\ transformed_value = TNotRun
    /\ data = <<>>
    /\ parsed = NotRun
    /\ obj = <<>>
    /\ serialized = NotRun
    /\ op = "shared"

SharedRest ==
    /\ UNCHANGED <<fields, write_config, schema, data, parsed, obj, serialized, op,
                   transform, field_value, transformed_value>>
    /\ UNCHANGED rvars

\* Thread t enters schema.parse(d): the length test, then `let mut map`.
CallParse(t) ==
    /\ calls[t].pc = "idle"
    /\ \E d \in SharedBuffers :
          IF Len(d) * 8 < schema.val.total_bits
          THEN /\ calls' = [calls EXCEPT ![t] = Done("parse", d, Err("PacketTooShort"))]
               /\ UNCHANGED locals
          ELSE /\ calls' = [calls EXCEPT ![t] = Running("parse", d)]
               /\ locals' = [locals EXCEPT ![slot(t)].map = <<>>]
    /\ SharedRest

\* One turn of the loop of parse, or its return.
StepParse(t) ==
    /\ calls[t].pc = "running" /\ calls[t].fn = "parse"
    /\ LET c == calls[t]
           cfs == schema.val.fields
       IN IF c.idx > Len(cfs)
          THEN /\ calls' = [calls EXCEPT ![t] = Done(c.fn, c.input, Ok(Local(t).map))]
               /\ UNCHANGED locals
          ELSE LET field == cfs[c.idx]
                   v == IF field.kind = "Scalar"
                        THEN CompiledScalar_assemble(field.scalar, c.input)
                        ELSE CompiledArray_assemble(field, c.input)
               IN IF ~v.ok
                  THEN /\ calls' = [calls EXCEPT ![t] = Done(c.fn, c.input, v)]
                       /\ UNCHANGED locals
                  ELSE /\ calls' = [calls EXCEPT ![t].idx = c.idx + 1]
                       /\ locals' = [locals EXCEPT
                                        ![slot(t)].map =
                                            MapInsert(Local(t).map, field.name, v.val)]
    /\ SharedRest

\* Thread t enters schema.serialize(o): `let mut bits`.
CallSerialize(t) ==
    /\ calls[t].pc = "idle"
    /\ \E o \in SharedMaps :
          calls' = [calls EXCEPT ![t] = Running("serialize", o)]
    /\ locals' = [locals EXCEPT ![slot(t)].bits = <<>>]
    /\ SharedRest

\* One turn of the loop of serialize, or bits_to_bytes and its return.
StepSerialize(t) ==
    /\ calls[t].pc = "running" /\ calls[t].fn = "serialize"
    /\ LET c == calls[t]
           cfs == schema.val.fields
       IN IF c.idx > Len(cfs)
          THEN /\ calls' = [calls EXCEPT ![t] =
                               Done(c.fn, c.input,
                                    Ok(bits_to_bytes(Local(t).bits,
                                           IF schema.val.write_config = "None"
                                           THEN "MsbFirst"
                                           ELSE schema.val.write_config)))]
               /\ UNCHANGED locals
          ELSE LET field == cfs[c.idx]
               IN IF field.name \notin DOMAIN c.input
                  THEN /\ calls' = [calls EXCEPT ![t] =
                                       Done(c.fn, c.input,
                                            Err("MissingField(" \o field.name \o ")"))]
                       /\ UNCHANGED locals
                  ELSE LET r == IF field.kind = "Scalar"
                                THEN CompiledScalar_disassemble(field.scalar,
                                         c.input[field.name], Local(t).bits)
                                ELSE CompiledArray_disassemble(field,
                                         c.input[field.name], Local(t).bits)
                       IN IF ~r.ok
                          THEN /\ calls' = [calls EXCEPT ![t] = Done(c.fn, c.input, r)]
                               /\ UNCHANGED locals
                          ELSE /\ calls' = [calls EXCEPT ![t].idx = c.idx + 1]
                               /\ locals' = [locals EXCEPT ![slot(t)].bits = r.val]
    /\ SharedRest

\* Thread t enters transform.apply(raw): validate, then the scalar at once or
\* `let mut out` for an array.
CallApply(t) ==
    /\ calls[t].pc = "idle"
    /\ \E r \in SharedRaws :
          IF ~validate(transform.t).ok \/ transform.t.base = "Bytes" \/ r.tag # "Array"
          THEN /\ calls' = [calls EXCEPT ![t] = Done("apply", r, Transform_apply(transform.t, r))]
               /\ UNCHANGED locals
          ELSE /\ calls' = [calls EXCEPT ![t] = Running("apply", r)]
               /\ locals' = [locals EXCEPT ![slot(t)].out = <<>>]
    /\ SharedRest

\* One turn of the loop of apply over the array, or its return.
StepApply(t) ==
    /\ calls[t].pc = "running" /\ calls[t].fn = "apply"
    /\ LET c == calls[t]
       IN IF c.idx > Len(c.input.elems)
          THEN /\ calls' = [calls EXCEPT ![t] =
                               Done(c.fn, c.input, TOk(Value_Array(Local(t).out)))]
               /\ UNCHANGED locals
          ELSE LET r == apply_scalar(transform.t, c.input.elems[c.idx])
               IN IF ~r.ok
                  THEN /\ calls' = [calls EXCEPT ![t] = Done(c.fn, c.input, r)]
                       /\ UNCHANGED locals
                  ELSE /\ calls' = [calls EXCEPT ![t].idx = c.idx + 1]
                       /\ locals' = [locals EXCEPT ![slot(t)].out = Append(Local(t).out, r.val)]
    /\ SharedRest

\* The caller takes the result; the thread may call again.
Return(t) ==
    /\ calls[t].pc = "done"
    /\ calls' = [calls EXCEPT ![t] = IdleCall]
    /\ UNCHANGED locals
    /\ SharedRest

NextShared ==
    \E t \in Threads :
        \/ CallParse(t)
        \/ StepParse(t)
        \/ CallSerialize(t)
        \/ StepSerialize(t)
        \/ CallApply(t)
        \/ StepApply(t)
        \/ Return(t)

SpecShared == InitShared /\ [][NextShared]_vars

\* ------------------------------------------------------------------- claims

\* The positions at which a parse result is in `parsed`.
Parsed == op \in {"parse", "parse_serialize", "serialize_parse"}

\* The validation rules of a field, as the field compiler is documented.
FieldValid(f) ==
    /\ SumLenBits(f.fragments) >= 1
    /\ SumLenBits(f.fragments) <= 64
    /\ \A k \in 1 .. Len(f.fragments) : f.fragments[k].len_bits > 0
    /\ f.kind = "Array" =>
          /\ f.spec.count >= 1
          /\ f.spec.stride_bits >= SumLenBits(f.fragments)

FirstInvalid(fs) ==
    CHOOSE i \in 1 .. Len(fs) :
        /\ ~FieldValid(fs[i])
        /\ \A j \in 1 .. (i - 1) : FieldValid(fs[j])

\* C3: on a buffer with data.len()*8 < total_bits, Schema::parse returns
\* PacketTooShort, no other error and no map.
C3_ShortBufferIsPacketTooShort ==
    (Parsed /\ Len(data) * 8 < schema.val.total_bits) => parsed = Err("PacketTooShort")

C3_Witness ==
    /\ op = "parse"
    /\ Len(data) > 0
    /\ Len(fields) > 1
    /\ Len(data) * 8 < schema.val.total_bits
    /\ parsed.err = "PacketTooShort"

\* C4: on a buffer with data.len()*8 >= total_bits, Schema::parse of a
\* compiled schema succeeds (never OutOfBounds, never TooManyBitsRead).
C4_LongEnoughBufferParses ==
    (Parsed /\ Len(data) * 8 >= schema.val.total_bits) => parsed.ok

C6_FirstInvalidFieldDecides ==
    (op # "new" /\ \E i \in 1 .. Len(fields) : ~FieldValid(fields[i])) =>
        LET i == FirstInvalid(fields)
        IN /\ ~schema.ok
           /\ schema.err = CompiledField_try_from(fields[i]).err
           /\ schema = Schema_compile(SubSeq(fields, 1, i), write_config)

C6_Witness ==
    /\ op = "compile"
    /\ Len(fields) = 2
    /\ ~FieldValid(fields[1])
    /\ ~FieldValid(fields[2])
    /\ CompiledField_try_from(fields[1]).err # CompiledField_try_from(fields[2]).err
    /\ schema.err = CompiledField_try_from(fields[1]).err

\* Bit p of a buffer, bit 0 being the most significant bit of the first byte.
DataBit(d, p) ==
    IF d[(p \div 8) + 1] % (2 ^ (8 - (p % 8))) >= 2 ^ (7 - (p % 8)) THEN 1 ELSE 0

Covers(cs, d, base) ==
    \A k \in 1 .. Len(cs.fragments) :
        base + cs.fragments[k].offset_bits + cs.fragments[k].len_bits <= Len(d) * 8

\* The accumulator of a compiled scalar read at `base`, bit by bit: bit b of
\* it lies in the fragment with shift <= b < shift + len_bits and is the bit the
\* fragment reads at distance b - shift from its end (MsbFirst) or from its
\* start (LsbFirst).
ExpectedAcc(cs, d, base) ==
    {b \in Word :
        \E k \in 1 .. Len(cs.fragments) :
            LET f == cs.fragments[k]
                j == b - f.shift
            IN /\ j >= 0
               /\ j < f.len_bits
               /\ DataBit(d, base + f.offset_bits +
                             (IF f.bit_order = "LsbFirst" THEN j ELSE f.len_bits - 1 - j)) = 1}

\* The value a scalar decodes to: the accumulator, with bit total_bits-1
\* copied into every higher bit when the scalar is signed.
ExpectedValue(cs, d, base) ==
    LET acc == ExpectedAcc(cs, d, base)
    IN IF cs.signed
       THEN I64({b \in Word : IF b < cs.total_bits THEN b \in acc
                                                    ELSE (cs.total_bits - 1) \in acc})
       ELSE U64(acc)

\* Field i is the one whose value the map holds under its name.
LastOfName(cfs, i) == \A j \in (i + 1) .. Len(cfs) : cfs[j].name # cfs[i].name

\* C7: the accumulator of a scalar is the OR over its fragments of the
\* len_bits bits read MSB-first at the fragment's offset_bits, reversed when
\* the fragment is LsbFirst, shifted left by the fragment's shift; an unsigned
\* scalar field decodes to it.
C7_AccumulatorIsOrOfShiftedFragments ==
    Parsed =>
        \A i \in 1 .. Len(schema.val.fields) :
            LET cf == schema.val.fields[i]
            IN /\ Covers(cf.scalar, data, 0) =>
                      assemble_loop(cf.scalar.fragments, data, 0, {})
                          = Ok(ExpectedAcc(cf.scalar, data, 0))
               /\ (parsed.ok /\ cf.kind = "Scalar" /\ ~cf.scalar.signed
                       /\ LastOfName(schema.val.fields, i)) =>
                      parsed.val[cf.name] = U64(ExpectedAcc(cf.scalar, data, 0))

\* A scalar of two fragments, the first defined lying physically after the
\* second, one of them LsbFirst, decoded from a buffer of mixed bits.
C7_Witness ==
    /\ op = "parse"
    /\ parsed.ok
    /\ \E i \in 1 .. Len(schema.val.fields) :
          LET cf == schema.val.fields[i]
          IN /\ cf.kind = "Scalar"
             /\ Len(cf.scalar.fragments) = 2
             /\ cf.scalar.fragments[1].offset_bits > cf.scalar.fragments[2].offset_bits
             /\ \E k \in 1 .. 2 : cf.scalar.fragments[k].bit_order = "LsbFirst"
             /\ parsed.val[cf.name].bits \notin {{}, Mask(cf.scalar.total_bits), Word}

\* C8: an unsigned scalar field decodes to U64(acc) with acc < 2^total_bits, a
\* signed one to I64(v) where v is acc with bit total_bits-1 replicated into
\* all higher bits; an all-ones pattern decodes to -1.
C8_SignExtension ==
    (Parsed /\ parsed.ok) =>
        \A i \in 1 .. Len(schema.val.fields) :
            LET cf == schema.val.fields[i]
                tb == cf.scalar.total_bits
                acc == ExpectedAcc(cf.scalar, data, 0)
                v == parsed.val[cf.name]
            IN (cf.kind = "Scalar" /\ LastOfName(schema.val.fields, i)) =>
                   IF cf.scalar.signed
                   THEN /\ v.tag = "I64"
                        /\ \A b \in Word :
                              b \in v.bits <=> (IF b < tb THEN b \in acc ELSE (tb - 1) \in acc)
                        /\ acc = Mask(tb) => v.bits = Word
                   ELSE /\ v.tag = "U64"
                        /\ v.bits = acc
                        /\ \A b \in v.bits : b < tb

\* The spec's example: a signed 8-bit field over an all-ones byte is -1.
C8_Witness ==
    /\ op = "parse"
    /\ parsed.ok
    /\ Len(schema.val.fields) = 1
    /\ schema.val.fields[1].kind = "Scalar"
    /\ schema.val.fields[1].scalar.signed
    /\ schema.val.fields[1].scalar.total_bits = 8
    /\ data[1] = 255
    /\ parsed.val[schema.val.fields[1].name] = I64(Word)

\* C9: an array field decodes to Array(values) with exactly count values,
\* value i being the element scalar assembled at offset_bits + i*stride_bits.
C9_ArrayElementsAtStride ==
    (Parsed /\ parsed.ok) =>
        \A i \in 1 .. Len(schema.val.fields) :
            LET cf == schema.val.fields[i]
            IN (cf.kind = "Array" /\ LastOfName(schema.val.fields, i)) =>
                   /\ parsed.val[cf.name].tag = "Array"
                   /\ Len(parsed.val[cf.name].elems) = cf.count
                   /\ \A k \in 1 .. cf.count :
                         parsed.val[cf.name].elems[k] =
                             ExpectedValue(cf.scalar, data,
                                           cf.offset_bits + (k - 1) * cf.stride_bits)

\* An array away from bit 0 with a stride wider than its element, whose
\* elements decode to different values.
C9_Witness ==
    /\ op = "parse"
    /\ parsed.ok
    /\ \E i \in 1 .. Len(schema.val.fields) :
          LET cf == schema.val.fields[i]
          IN /\ cf.kind = "Array"
             /\ cf.count >= 2
             /\ cf.offset_bits > 0
             /\ cf.stride_bits > cf.scalar.total_bits
             /\ parsed.val[cf.name].elems[1] # parsed.val[cf.name].elems[2]

\* The fragments lie one after the other from `base`, in definition order.
FragsDense(frags, base) ==
    \A k \in 1 .. Len(frags) :
        frags[k].offset_bits = base + SumLenBits(SubSeq(frags, 1, k - 1))

\* The fields lie one after the other from `pos`, in definition order; an
\* array's elements lie one after the other from its offset_bits.
RECURSIVE DenseFrom(_, _)
DenseFrom(fs, pos) ==
    IF fs = <<>>
    THEN TRUE
    ELSE LET f == fs[1]
             tb == SumLenBits(f.fragments)
         IN IF f.kind = "Scalar"
            THEN FragsDense(f.fragments, pos) /\ DenseFrom(Tail(fs), pos + tb)
            ELSE /\ f.spec.offset_bits = pos
                 /\ f.spec.stride_bits = tb
                 /\ FragsDense(f.fragments, 0)
                 /\ DenseFrom(Tail(fs), pos + f.spec.count * tb)

IsDense(fs) == DenseFrom(fs, 0)

DistinctNames(fs) ==
    \A i, j \in 1 .. Len(fs) : i # j => fs[i].name # fs[j].name

MsbWrite == write_config \in {"None", "MsbFirst"}

\* Every bit of the buffer at or beyond total_bits is 0.
PaddingZero(d, total_bits) ==
    \A p \in total_bits .. (Len(d) * 8 - 1) : DataBit(d, p) = 0

\* C1 as stated: for a dense schema and a buffer of exactly ceil(total_bits/8)
\* bytes, serialize(parse(bytes)) returns the bytes.
C1_RoundTripBytes_AsStated ==
    (op = "parse_serialize" /\ IsDense(fields)
         /\ Len(data) = NeedBytes(schema.val.total_bits)) =>
        serialized = Ok(data)

\* C1 amended: the same, for distinctly named fields, a write configuration
\* that is absent or MsbFirst, and a buffer whose bits beyond total_bits are 0.
C1_RoundTripBytes ==
    (op = "parse_serialize" /\ IsDense(fields) /\ DistinctNames(fields) /\ MsbWrite
         /\ Len(data) = NeedBytes(schema.val.total_bits)
         /\ PaddingZero(data, schema.val.total_bits)) =>
        serialized = Ok(data)

\* Two fields ending inside a byte, over a buffer that is not all zero.
C1_Witness ==
    /\ op = "parse_serialize"
    /\ IsDense(fields) /\ DistinctNames(fields) /\ MsbWrite
    /\ Len(fields) = 2
    /\ schema.val.total_bits % 8 # 0
    /\ Len(data) = NeedBytes(schema.val.total_bits)
    /\ PaddingZero(data, schema.val.total_bits)
    /\ data[1] # 0
    /\ serialized = Ok(data)

\* A value of the right shape for a compiled field that fits its width and
\* signedness.
FitsScalar(cs, v) ==
    /\ v.tag = (IF cs.signed THEN "I64" ELSE "U64")
    /\ \A b \in v.bits :
          b >= cs.total_bits => (cs.signed /\ (cs.total_bits - 1) \in v.bits)
    /\ (cs.signed /\ (cs.total_bits - 1) \in v.bits) =>
          \A b \in Word : b >= cs.total_bits => b \in v.bits

FitsField(cf, v) ==
    IF cf.kind = "Scalar"
    THEN FitsScalar(cf.scalar, v)
    ELSE /\ v.tag = "Array"
         /\ Len(v.elems) = cf.count
         /\ \A k \in 1 .. cf.count : FitsScalar(cf.scalar, v.elems[k])

FitsSchema(cfs, o) ==
    \A i \in 1 .. Len(cfs) :
        cfs[i].name \in DOMAIN o /\ FitsField(cfs[i], o[cfs[i].name])

\* C2 as stated: for a dense schema and a map of fitting values,
\* parse(serialize(map)) succeeds and returns every field's value.
C2_RoundTripValues_AsStated ==
    (op \in {"serialize", "serialize_parse"} /\ IsDense(fields)
         /\ FitsSchema(schema.val.fields, obj)) =>
        /\ serialized.ok
        /\ op = "serialize_parse" =>
              /\ parsed.ok
              /\ \A i \in 1 .. Len(fields) : parsed.val[fields[i].name] = obj[fields[i].name]

\* C2 amended: the same, for a write configuration that is absent or MsbFirst.
C2_RoundTripValues ==
    (op \in {"serialize", "serialize_parse"} /\ IsDense(fields) /\ MsbWrite
         /\ FitsSchema(schema.val.fields, obj)) =>
        /\ serialized.ok
        /\ op = "serialize_parse" =>
              /\ parsed.ok
              /\ \A i \in 1 .. Len(fields) : parsed.val[fields[i].name] = obj[fields[i].name]

\* A scalar holding a negative value next to an array, ending inside a byte.
C2_Witness ==
    /\ op = "serialize_parse"
    /\ IsDense(fields) /\ MsbWrite
    /\ FitsSchema(schema.val.fields, obj)
    /\ Len(fields) = 2
    /\ schema.val.total_bits % 8 # 0
    /\ fields[1].kind = "Scalar" /\ fields[2].kind = "Array"
    /\ obj[fields[1].name].tag = "I64"
    /\ obj[fields[1].name].bits \notin {{}, Word}
    /\ (WordBits - 1) \in obj[fields[1].name].bits
    /\ parsed = Ok(obj)

RECURSIVE ConcatAll(_)
ConcatAll(seqs) == IF seqs = <<>> THEN <<>> ELSE seqs[1] \o ConcatAll(Tail(seqs))

\* The len_bits bits a fragment contributes, first written first: the slice
\* of the value at the fragment's shift from its top bit down (MsbFirst) or
\* from its low bit up (LsbFirst: the reversed slice, top bit first).
FragBits(f, p) ==
    [j \in 1 .. f.len_bits |->
        IF (IF f.bit_order = "LsbFirst" THEN f.shift + j - 1
                                         ELSE f.shift + f.len_bits - j) \in p
        THEN 1 ELSE 0]

ScalarBits(cs, v) ==
    ConcatAll([k \in 1 .. Len(cs.fragments) |-> FragBits(cs.fragments[k], v.bits)])

FieldBits(cf, v) ==
    IF cf.kind = "Scalar"
    THEN ScalarBits(cf.scalar, v)
    ELSE ConcatAll([k \in 1 .. Len(v.elems) |-> ScalarBits(cf.scalar, v.elems[k])])

ExpectedBits(cfs, o) ==
    ConcatAll([i \in 1 .. Len(cfs) |-> FieldBits(cfs[i], o[cfs[i].name])])

BitAt(bits, i) == IF i < Len(bits) THEN bits[i + 1] ELSE 0

\* ceil(n/8) bytes; bit i of the sequence at bit 7-(i mod 8) of byte i/8, or at
\* bit i mod 8 under LsbFirst; every other bit 0.
ExpectedBytes(bits, bit_order) ==
    [k \in 1 .. ((Len(bits) + 7) \div 8) |->
        LET b(j) == BitAt(bits, 8 * (k - 1) + j)
        IN IF bit_order = "LsbFirst"
           THEN b(0) + 2 * b(1) + 4 * b(2) + 8 * b(3)
                + 16 * b(4) + 32 * b(5) + 64 * b(6) + 128 * b(7)
           ELSE 128 * b(0) + 64 * b(1) + 32 * b(2) + 16 * b(3)
                + 8 * b(4) + 4 * b(5) + 2 * b(6) + b(7)]

\* The fields with every offset_bits set to 0 and every stride set to the
\* element width.
ZeroOffsets(fs) ==
    [i \in 1 .. Len(fs) |->
        [fs[i] EXCEPT
            !.fragments = [k \in 1 .. Len(fs[i].fragments) |->
                              [fs[i].fragments[k] EXCEPT !.offset_bits = 0]],
            !.spec = [@ EXCEPT !.offset_bits = 0,
                               !.stride_bits = IF fs[i].kind = "Array"
                                               THEN SumLenBits(fs[i].fragments)
                                               ELSE 0]]]

\* C10: the output of Schema::serialize is the bits of the fields in
\* definition order, each scalar giving its fragments in definition order and
\* each array its elements in order, appended densely and packed into
\* ceil(n/8) bytes; no offset_bits and no stride changes it.
C10_SerializeIsDenseInDefinitionOrder ==
    (op \in {"serialize", "parse_serialize"} /\ serialized.ok) =>
        /\ serialized.val =
               ExpectedBytes(ExpectedBits(schema.val.fields, obj),
                             IF write_config = "None" THEN "MsbFirst" ELSE write_config)
        /\ serialized =
               Schema_serialize(Schema_compile(ZeroOffsets(fields), write_config).val, obj)

\* A schema that is not dense, with an array whose stride is wider than its
\* element, serialized to bytes that are neither all 0 nor all 1.
C10_Witness ==
    /\ op = "serialize"
    /\ serialized.ok
    /\ ~IsDense(fields)
    /\ Len(fields) = 2
    /\ \E i \in 1 .. 2 :
          /\ fields[i].kind = "Array"
          /\ fields[i].spec.stride_bits > SumLenBits(fields[i].fragments)
    /\ \E k \in 1 .. Len(serialized.val) : serialized.val[k] \notin {0, 255}
    /\ Len(serialized.val) * 8 # Len(ExpectedBits(schema.val.fields, obj))

\* The fields of the schema the map has no entry for.
Missing(cfs, o) == {i \in 1 .. Len(cfs) : cfs[i].name \notin DOMAIN o}

FirstOf(S) == CHOOSE i \in S : \A j \in S : i <= j

IsScalarValue(v) == v.tag \in {"I64", "U64"}

\* A scalar value for a scalar field; an Array of count scalar values for an
\* array field.
ShapeOk(cf, v) ==
    IF cf.kind = "Scalar"
    THEN IsScalarValue(v)
    ELSE /\ v.tag = "Array"
         /\ Len(v.elems) = cf.count
         /\ \A k \in 1 .. Len(v.elems) : IsScalarValue(v.elems[k])

MissingField(name) == Err("MissingField(" \o name \o ")")

\* C11 as stated: when the map lacks an entry for some field, serialize
\* returns MissingField with the name of the first such field, and no bytes.
C11_MissingField_AsStated ==
    (op = "serialize" /\ Missing(schema.val.fields, obj) # {}) =>
        serialized =
            MissingField(schema.val.fields[FirstOf(Missing(schema.val.fields, obj))].name)

\* C11 amended: the same, when every field defined before the first field
\* without an entry has a value of the right shape.
C11_MissingField ==
    (op = "serialize" /\ Missing(schema.val.fields, obj) # {}) =>
        LET cfs == schema.val.fields
            i == FirstOf(Missing(cfs, obj))
        IN (\A j \in 1 .. (i - 1) : ShapeOk(cfs[j], obj[cfs[j].name])) =>
               serialized = MissingField(cfs[i].name)

\* The second of two fields has no entry, the first has a good value.
C11_Witness ==
    /\ op = "serialize"
    /\ Len(schema.val.fields) = 2
    /\ Missing(schema.val.fields, obj) = {2}
    /\ ShapeOk(schema.val.fields[1], obj[schema.val.fields[1].name])
    /\ serialized = MissingField(schema.val.fields[2].name)
    /\ serialized.val = <<>>

\* The three mismatches of the claim: a scalar field given an Array, an array
\* field given a value that is not an Array, an array field given an Array
\* whose length is not count.
Mismatch(cf, v) ==
    IF cf.kind = "Scalar"
    THEN v.tag = "Array"
    ELSE v.tag # "Array" \/ Len(v.elems) # cf.count

Mismatched(cfs, o) ==
    {i \in 1 .. Len(cfs) : cfs[i].name \in DOMAIN o /\ Mismatch(cfs[i], o[cfs[i].name])}

\* C12 as stated: serialize returns InvalidValue, and no bytes, whenever some
\* field of the schema is given a mismatched value.
C12_InvalidValue_AsStated ==
    (op = "serialize" /\ Mismatched(schema.val.fields, obj) # {}) =>
        serialized = Err("InvalidValue")

\* C12 amended: the same, when no field defined before the mismatched field
\* lacks an entry in the map.
C12_InvalidValue ==
    (op = "serialize") =>
        \A i \in Mismatched(schema.val.fields, obj) :
            (\A j \in Missing(schema.val.fields, obj) : j > i) =>
                serialized = Err("InvalidValue")

\* Each of the three mismatches happens in a field that follows a good one.
C12_WitnessCase(scalar_field, is_array_value) ==
    /\ op = "serialize"
    /\ Len(schema.val.fields) = 2
    /\ Missing(schema.val.fields, obj) = {}
    /\ Mismatched(schema.val.fields, obj) = {2}
    /\ (schema.val.fields[2].kind = "Scalar") = scalar_field
    /\ (obj[schema.val.fields[2].name].tag = "Array") = is_array_value
    /\ serialized = Err("InvalidValue")
    /\ serialized.val = <<>>

C12_Witness ==
    \/ C12_WitnessCase(TRUE, TRUE)
    \/ C12_WitnessCase(FALSE, FALSE)
    \/ C12_WitnessCase(FALSE, TRUE)

\* ---- Transform::apply

Applied == op = "apply" /\ transform.some

\* The scale passes validation: it is absent or finite.
ScaleValid == ~is_some(transform.t.scale) \/ is_finite(transform.t.scale)

\* encoding set with a base other than Bytes, or enum_map set with a base
\* other than Int.
Misconfigured ==
    \/ transform.t.encoding # "None" /\ transform.t.base # "Bytes"
    \/ transform.t.enum_map.some /\ transform.t.base # "Int"

\* C13 as stated: a misconfigured transform returns InvalidType for every raw
\* input.
C13_InvalidConfiguration_AsStated ==
    (Applied /\ Misconfigured) => transformed_value = TErr("InvalidType")

\* C13 amended: the same, when the scale is absent or finite.
C13_InvalidConfiguration ==
    (Applied /\ Misconfigured /\ ScaleValid) => transformed_value = TErr("InvalidType")

\* A base Float32 transform with an enum_map, given an I64: the raw value alone
\* would be an InvalidBase.
C13_Witness ==
    /\ Applied /\ ScaleValid
    /\ transform.t.base = "Float32"
    /\ transform.t.enum_map.some
    /\ transform.t.encoding = "None"
    /\ field_value.tag = "I64"
    /\ transformed_value = TErr("InvalidType")

IsRawInteger(v) == v.tag \in {"I64", "U64"}

\* What the enum lookup gives for the i64 pattern v.
EnumOutcome(v) ==
    IF v \in DOMAIN transform.t.enum_map.map
    THEN TOk(Value_String(transform.t.enum_map.map[v]))
    ELSE InvalidEnumValue(v)

\* C14 as stated: with base Int and an enum_map, a raw integer gives its
\* label or InvalidEnumValue, nothing else.
C14_EnumOutcomes_AsStated ==
    (Applied /\ transform.t.base = "Int" /\ transform.t.enum_map.some
         /\ IsRawInteger(field_value)) =>
        transformed_value = EnumOutcome(field_value.bits)

\* C14 amended: the same, when no scale, offset or encoding is set (a U64 is
\* looked up as the i64 of the same pattern).
C14_EnumOutcomes ==
    (Applied /\ transform.t.base = "Int" /\ transform.t.enum_map.some
         /\ ~is_some(transform.t.scale) /\ ~is_some(transform.t.offset)
         /\ transform.t.encoding = "None"
         /\ IsRawInteger(field_value)) =>
        transformed_value = EnumOutcome(field_value.bits)

\* An integer without a label.
C14_Witness ==
    /\ Applied
    /\ transform.t.base = "Int" /\ transform.t.enum_map.some
    /\ ~is_some(transform.t.scale) /\ ~is_some(transform.t.offset)
    /\ transform.t.encoding = "None"
    /\ field_value = I64(Pat(3))
    /\ transformed_value = InvalidEnumValue(Pat(3))

\* An integer element outside 0..=255, as U64 or as I64.
OutOfByteRange(v) == IsRawInteger(v) /\ \E b \in v.bits : b >= 8

BadElements(vs) == {i \in 1 .. Len(vs) : ~IsRawInteger(vs[i]) \/ OutOfByteRange(vs[i])}

\* The number an in-range element stands for.
ByteOf(v) == SumBits(v.bits, 0)

\* C15 as stated: with base Bytes, InvalidByteValue when any integer element
\* is out of range, InvalidType when any element is not an integer or the raw
\* value is not an Array, otherwise the bytes in element order.
C15_BytesExtraction_AsStated ==
    (Applied /\ transform.t.base = "Bytes") =>
        LET vs == field_value.elems
        IN /\ field_value.tag # "Array" => transformed_value = TErr("InvalidType")
           /\ (field_value.tag = "Array" /\ \E i \in 1 .. Len(vs) : OutOfByteRange(vs[i])) =>
                  transformed_value = TErr("InvalidByteValue")
           /\ (field_value.tag = "Array" /\ \E i \in 1 .. Len(vs) : ~IsRawInteger(vs[i])) =>
                  transformed_value = TErr("InvalidType")
           /\ (field_value.tag = "Array" /\ BadElements(vs) = {}) =>
                  transformed_value = TOk(Value_Bytes([i \in 1 .. Len(vs) |-> ByteOf(vs[i])]))

\* C15 amended: with base Bytes and a configuration that passes validation,
\* InvalidType when the raw value is not an Array; else the first element that
\* is out of range or not an integer decides between InvalidByteValue and
\* InvalidType; else the bytes in element order, as Bytes when no encoding is
\* set and as the input of string decoding when one is.
C15_BytesExtraction ==
    (Applied /\ transform.t.base = "Bytes" /\ ScaleValid /\ ~transform.t.enum_map.some) =>
        LET vs == field_value.elems
        IN IF field_value.tag # "Array"
           THEN transformed_value = TErr("InvalidType")
           ELSE IF BadElements(vs) # {}
           THEN transformed_value =
                    IF IsRawInteger(vs[FirstOf(BadElements(vs))])
                    THEN TErr("InvalidByteValue")
                    ELSE TErr("InvalidType")
           ELSE LET bytes == Value_Bytes([i \in 1 .. Len(vs) |-> ByteOf(vs[i])])
                IN transformed_value =
                       IF transform.t.encoding = "None"
                       THEN TOk(bytes)
                       ELSE apply_string(bytes, transform.t.encoding,
                                         transform.t.zero_terminated, transform.t.trim)

\* An element that is not an integer before one that is out of range.
C15_Witness ==
    /\ Applied
    /\ transform.t.base = "Bytes" /\ ScaleValid /\ ~transform.t.enum_map.some
    /\ field_value.tag = "Array"
    /\ Len(field_value.elems) = 3
    /\ IsRawInteger(field_value.elems[1]) /\ ~OutOfByteRange(field_value.elems[1])
    /\ ~IsRawInteger(field_value.elems[2])
    /\ OutOfByteRange(field_value.elems[3])
    /\ transformed_value = TErr("InvalidType")

\* The bytes of a raw array of in-range integers.
RawBytes == [i \in 1 .. Len(field_value.elems) |-> ByteOf(field_value.elems[i])]

\* The longest prefix without a zero byte.
BeforeZero(bs) ==
    LET k == MaxOf({n \in 0 .. Len(bs) : \A i \in 1 .. n : bs[i] # 0})
    IN SubSeq(bs, 1, k)

\* String decoding is reached: base Bytes, the configuration passes
\* validation, an encoding is set and the raw value is an array of bytes.
DecodesString ==
    /\ Applied
    /\ transform.t.base = "Bytes" /\ ScaleValid /\ ~transform.t.enum_map.some
    /\ transform.t.encoding # "None"
    /\ field_value.tag = "Array" /\ BadElements(field_value.elems) = {}

\* C16: string decoding truncates at the first zero byte (zero_terminated),
\* then fails with InvalidAsciiByteValue on a remaining byte above 0x7F
\* (Ascii), then decodes, then trims (trim).
C16_StringDecodingOrder ==
    DecodesString =>
        LET kept == IF transform.t.zero_terminated = "true"
                    THEN BeforeZero(RawBytes)
                    ELSE RawBytes
        IN transformed_value =
               IF transform.t.encoding = "Ascii" /\ \E i \in 1 .. Len(kept) : kept[i] > 127
               THEN TErr("InvalidAsciiByteValue")
               ELSE IF ~is_utf8(kept)
               THEN TErr("InvalidEncoding")
               ELSE TOk(Value_String(IF transform.t.trim = "true" THEN trim(kept) ELSE kept))

\* A zero-terminated Ascii buffer with a byte above 0x7F after the zero byte
\* and a space before it, trimmed.
C16_Witness ==
    /\ DecodesString
    /\ transform.t.encoding = "Ascii"
    /\ transform.t.zero_terminated = "true"
    /\ transform.t.trim = "true"
    /\ RawBytes = <<32, 0, 195>>
    /\ transformed_value = TOk(Value_String(<<>>))

FloatBase == transform.t.base \in {"Float32", "Float64"}

\* What a float base makes of a raw U64 before the numeric modifiers.
FloatOfRaw ==
    IF transform.t.base = "Float32"
    THEN Value_Float32({b \in field_value.bits : b < 32})
    ELSE Value_Float64(field_value.bits)

NoModifiers == ~is_some(transform.t.scale) /\ ~is_some(transform.t.offset)

\* C17 as stated: with a float base, a raw scalar other than a U64 fails with
\* InvalidBase, and a raw U64 is accepted (its low 32 bits, or all 64).
C17_FloatBaseTakesU64_AsStated ==
    (Applied /\ FloatBase /\ field_value.tag # "Array") =>
        IF field_value.tag = "U64"
        THEN /\ transformed_value.ok
             /\ transformed_value.val.tag = transform.t.base
             /\ NoModifiers => transformed_value = TOk(FloatOfRaw)
        ELSE transformed_value = TErr("InvalidBase")

\* C17 amended: the same, for a configuration that passes validation (scale
\* absent or finite, no encoding, no enum_map).
C17_FloatBaseTakesU64 ==
    (Applied /\ FloatBase /\ field_value.tag # "Array"
         /\ ScaleValid /\ ~Misconfigured) =>
        IF field_value.tag = "U64"
        THEN /\ transformed_value.ok
             /\ transformed_value.val.tag = transform.t.base
             /\ NoModifiers => transformed_value = TOk(FloatOfRaw)
        ELSE transformed_value = TErr("InvalidBase")

\* An I64 holding the pattern of 1.5f32 is refused.
C17_Witness ==
    /\ Applied /\ ScaleValid /\ ~Misconfigured
    /\ transform.t.base = "Float32"
    /\ field_value = I64(Pat(1069547520))
    /\ transformed_value = TErr("InvalidBase")

\* The raw scalar as the number the base makes of it.
RawNumber ==
    CASE transform.t.base = "Float32" -> F32Of({b \in field_value.bits : b < 32})
      [] transform.t.base = "Float64" -> F64Of(field_value.bits)
      [] OTHER ->
             IF field_value.bits = Word
             THEN Num(-1, 1, 0)
             ELSE IF \A b \in field_value.bits : b < 24
             THEN Num(1, SumBits(field_value.bits, 0), 0)
             ELSE NaN

\* A number that is a multiple of 1/4 below 2^12 in magnitude.
IsQuarters(x) == x.k = "num" /\ x.e >= -2 /\ x.e + BitLen(x.m) <= 12

\* x in quarters; x in sixteenths.
Quarters(x) == x.s * x.m * 2 ^ (x.e + 2)

Sixteenths(x) == x.s * x.m * 2 ^ (x.e + 4)

ScaleOrOne == IF is_some(transform.t.scale) THEN transform.t.scale ELSE Num(1, 1, 0)

OffsetOrZero == IF is_some(transform.t.offset) THEN transform.t.offset ELSE Num(1, 0, 0)

\* The result as a number.
ResultNumber ==
    IF transformed_value.val.tag = "Float32"
    THEN F32Of(transformed_value.val.bits)
    ELSE F64Of(transformed_value.val.bits)

\* C18: when scale or offset is set, a successful apply on a scalar yields a
\* float (Float64 for base Int, the base's width for a float base) equal to
\* value*scale + offset, with scale 1.0 and offset 0.0 when absent; when
\* neither is set the numeric step hands the reinterpreted value on unchanged.
C18_ScaleAndOffset ==
    (Applied /\ field_value.tag # "Array" /\ transformed_value.ok) =>
        IF ~NoModifiers
        THEN /\ transformed_value.val.tag =
                    (IF transform.t.base = "Int" THEN "Float64" ELSE transform.t.base)
             /\ (IsQuarters(RawNumber) /\ IsQuarters(ScaleOrOne) /\ IsQuarters(OffsetOrZero)) =>
                    /\ ResultNumber.k = "num"
                    /\ ResultNumber.e >= -4
                    /\ Sixteenths(ResultNumber) =
                           Quarters(RawNumber) * Quarters(ScaleOrOne)
                               + 4 * Quarters(OffsetOrZero)
        ELSE LET reinterpreted == IF transform.t.base = "Int"
                                  THEN Value_Int(field_value.bits)
                                  ELSE FloatOfRaw
             IN transformed_value =
                    IF transform.t.enum_map.some
                    THEN EnumOutcome(reinterpreted.bits)
                    ELSE TOk(reinterpreted)

\* Base Int with scale 1.0 and offset 0.0: the integer 10 becomes Float64(10.0).
C18_Witness ==
    /\ Applied
    /\ transform.t.base = "Int"
    /\ transform.t.scale = Num(1, 1, 0)
    /\ transform.t.offset = Num(1, 0, 0)
    /\ field_value = I64(Pat(10))
    /\ transformed_value = TOk(Value_Float64({50, 53, 62}))

\* w is v with every U64 and I64 replaced by the Int of the same pattern.
RECURSIVE Converted(_, _)
Converted(v, w) ==
    IF v.tag = "Array"
    THEN /\ w.tag = "Array"
         /\ Len(w.elems) = Len(v.elems)
         /\ \A i \in 1 .. Len(v.elems) : Converted(v.elems[i], w.elems[i])
    ELSE w = Value_Int(v.bits)

\* A transform with base Int and nothing else set.
PlainInt == transform.some /\ transform.t = Transform_new("Int")

\* C19: without a transform, and with a plain base Int transform, a raw I64 or
\* U64 becomes the Int of the same 64-bit pattern; without a transform an
\* Array becomes the Array of its converted elements, and nothing fails.
C19_IntegersPassThrough ==
    (op = "apply") =>
        /\ (~transform.some \/ PlainInt) /\ IsRawInteger(field_value) =>
               transformed_value = TOk(Value_Int(field_value.bits))
        /\ ~transform.some =>
               transformed_value.ok /\ Converted(field_value, transformed_value.val)

\* Without a transform the U64 2^64 - 1 becomes the Int -1; an Array holding an
\* Array is converted as well.
C19_Witness ==
    /\ op = "apply"
    /\ ~transform.some
    /\ field_value = U64(Word)
    /\ transformed_value = TOk(Value_Int(Word))
    /\ i64_as_f64(transformed_value.val.bits) = Num(-1, 1, 0)

\* ---- shared use

\* The result of the same call made alone.
Alone(c) ==
    CASE c.fn = "parse" -> Schema_parse(schema.val, c.input)
      [] c.fn = "serialize" -> Schema_serialize(schema.val, c.input)
      [] OTHER -> Transform_apply(transform.t, c.input)

\* C20: parse, serialize and apply leave the schema and the transform
\* unchanged, and every call, repeated or interleaved with the calls of other
\* threads, returns what the same call returns when made alone.
C20_SharedReadOnly ==
    /\ [](\A t \in Threads : calls[t].pc = "done" => calls[t].result = Alone(calls[t]))
    /\ [][schema' = schema /\ transform' = transform]_vars

\* A parse has returned its map while the other thread is inside the loop of
\* a parse of the same buffer.
C20_Witness ==
    /\ op = "shared"
    /\ \E t, u \in Threads :
          /\ t # u
          /\ calls[t].pc = "done" /\ calls[t].fn = "parse" /\ calls[t].result.ok
          /\ calls[u].pc = "running" /\ calls[u].fn = "parse" /\ calls[u].idx = 2
          /\ calls[u].input = calls[t].input

\* ---- C21

\* The lengths of fragments a..b of a field, summed.
LenSum(frags, a, b) == SumLenBits(SubSeq(frags, a, b))

\* The bit range [shift, shift + len_bits) of a compiled fragment.
ShiftRange(cf) == {b \in 0 .. 127 : b >= cf.shift /\ b < cf.shift + cf.len_bits}

ElementValid(f) ==
    /\ SumLenBits(f.fragments) >= 1
    /\ SumLenBits(f.fragments) <= 64
    /\ \A k \in 1 .. Len(f.fragments) : f.fragments[k].len_bits > 0

\* Field i is the first field of the list the compiler can reject.
Decides(i) == \A j \in 1 .. (i - 1) : FieldValid(fields[j])

\* An Array field with a valid element scalar and count 0.
ZeroCountArray(f) == f.kind = "Array" /\ ElementValid(f) /\ f.spec.count = 0

\* C22 as stated: compiling an Array field whose element scalar is valid and
\* whose count is 0 fails with InvalidArrayCount, whatever stride_bits is.
C22_ZeroCount_AsStated ==
    op # "new" =>
        \A i \in 1 .. Len(fields) :
            (Decides(i) /\ ZeroCountArray(fields[i])) => schema = Err("InvalidArrayCount")

\* C22 (amended): compiling an Array field whose element scalar is valid and
\* whose count is 0 fails with InvalidArrayCount when stride_bits is at least
\* the element's total_bits, and with InvalidArrayStride when it is smaller.
C22_ZeroCount ==
    op # "new" =>
        \A i \in 1 .. Len(fields) :
            (Decides(i) /\ ZeroCountArray(fields[i])) =>
                schema = IF fields[i].spec.stride_bits < SumLenBits(fields[i].fragments)
                         THEN Err("InvalidArrayStride")
                         ELSE Err("InvalidArrayCount")

C22_Witness ==
    /\ op = "compile"
    /\ \E i \in 1 .. Len(fields) :
          /\ Decides(i)
          /\ ZeroCountArray(fields[i])
          /\ fields[i].spec.stride_bits > SumLenBits(fields[i].fragments)
          /\ schema = Err("InvalidArrayCount")

\* ---- C23

\* C23: compiling an Array field that has no fragments fails with
\* EmptyArrayElement.
C23_EmptyArrayElement ==
    op # "new" =>
        \A i \in 1 .. Len(fields) :
            (Decides(i) /\ fields[i].kind = "Array" /\ fields[i].fragments = <<>>) =>
                schema = Err("EmptyArrayElement")

\* ---- C24

\* The field has a fragment with len_bits = 0.
HasEmptyFragment(f) == \E k \in 1 .. Len(f.fragments) : f.fragments[k].len_bits = 0

DefConverts(def) ==
    /\ def.name \notin {"", " "}
    /\ def.fragments # <<>>
    /\ def.kind = "Array" => (def.spec.count > 0 /\ def.spec.stride_bits > 0)
    /\ \A k \in 1 .. Len(def.fragments) : def.fragments[k].len_bits > 0

\* Definition i is the first one the adapter's conversion can reject.
AdapterDecides(i) == \A j \in 1 .. (i - 1) : DefConverts(fields[j])

\* Through the adapter, a field with an empty name fails with InvalidFieldName.
EmptyNameRejectedByAdapter ==
    op = "wasm_new" =>
        \A i \in 1 .. Len(fields) :
            (AdapterDecides(i) /\ fields[i].name = "") =>
                wasm_schema = Err("InvalidFieldName")

FieldDecoded(cf, d) ==
    IF cf.kind = "Scalar"
    THEN CompiledScalar_assemble(cf.scalar, d)
    ELSE CompiledArray_assemble(cf, d)

\* The field list in another definition order.
Reordered(fs) ==
    LET n == Len(fs)
    IN {[i \in 1 .. n |-> fs[p[i]]] :
            p \in {q \in [1 .. n -> 1 .. n] : \A i, j \in 1 .. n : i # j => q[i] # q[j]}}

SerializedBits == serialize_loop(schema.val.fields, obj, <<>>).val

\* Bit `pos` (0 = least significant) of a byte.
BitOfByte(byte, pos) == (byte \div (2 ^ pos)) % 2

\* The position in its byte of bit i of the sequence.
BitInByte(i, bit_order) == IF bit_order = "MsbFirst" THEN 7 - (i % 8) ELSE i % 8

\* C27: bits_to_bytes on a sequence of n bits (each 0 or 1) returns exactly
\* ceil(n/8) bytes in which bit i of the sequence is stored in byte i/8 at bit
\* position 7-(i mod 8) for MsbFirst and at position i mod 8 for LsbFirst, and
\* every bit position the sequence does not address is 0; Schema::serialize
\* uses MsbFirst when the schema has no write configuration.
C27_BitsToBytesLayout ==
    serialized.ok =>
        LET bits == SerializedBits
            n == Len(bits)
            out == serialized.val
            bit_order == IF write_config = "None" THEN "MsbFirst" ELSE write_config
        IN /\ Len(out) * 8 >= n
           /\ (Len(out) - 1) * 8 < n
           /\ \A i \in 0 .. (n - 1) :
                 BitOfByte(out[(i \div 8) + 1], BitInByte(i, bit_order)) = bits[i + 1]
           /\ \A k \in 0 .. (Len(out) - 1) : \A p \in 0 .. 7 :
                 (\A i \in 0 .. (n - 1) : ~(i \div 8 = k /\ BitInByte(i, bit_order) = p))
                     => BitOfByte(out[k + 1], p) = 0

\* A schema without write configuration serialized to more than one byte, the
\* last one partly filled and holding a 1.
C27_Witness ==
    /\ op = "serialize"
    /\ serialized.ok
    /\ write_config = "None"
    /\ Len(SerializedBits) > 8
    /\ Len(SerializedBits) % 8 # 0
    /\ serialized.val[Len(serialized.val)] # 0
    /\ \E i \in 1 .. Len(SerializedBits) : SerializedBits[i] = 0

\* ---- C28

\* The n bits of a buffer from bit_pos on, the earliest as the most
\* significant bit of the value.
ExpectedRun(d, bit_pos, n) == {b \in 0 .. (n - 1) : DataBit(d, bit_pos + (n - 1 - b)) = 1}

\* What read_bits_at is to return; bit_pos < 0 stands for 2^64 + bit_pos, and
\* n < 0 for 2^64 + n.
ExpectedRead(d, bit_pos, n) ==
    IF n < 0 \/ n > 64
    THEN Err("TooManyBitsRead")
    ELSE IF bit_pos < 0 \/ bit_pos + n > Len(d) * 8
         THEN Err("OutOfBounds")
         ELSE Ok(ExpectedRun(d, bit_pos, n))

\* C28: read_bits_at(data, bit_pos, n), in the stateless function and in
\* BitReader::read_bits_at, returns TooManyBitsRead when n > 64 (even when the
\* run is also out of range), otherwise OutOfBounds when bit_pos + n >
\* data.len()*8, and otherwise the n bits starting at bit_pos with the
\* earliest bit as the most significant bit of the result (0 for n = 0); the
\* two implementations return the same result for the same arguments.
C28_ReadBitsAtAgree ==
    reader_call.fn = "read_bits_at" =>
        LET expected == ExpectedRead(reader.data, reader_call.bit_pos, reader_call.n)
        IN /\ read_bits_at(reader.data, reader_call.bit_pos, reader_call.n) = expected
           /\ reader_call.result = expected
           /\ reader_call.result
                  = read_bits_at(reader.data, reader_call.bit_pos, reader_call.n)

\* ---- C29

\* The cursor new is the cursor old advanced by n, all three as usize: a
\* negative integer r stands for 2^64 + r, and the sum stays below 2^64.
Advanced(old, n, new) ==
    /\ new = old + n
    /\ (old < 0 \/ n < 0) => (old + n < 0 /\ ~(old < 0 /\ n < 0))

\* The cursor new is the smallest multiple of b that is not below old.
AlignedUp(old, b, new) ==
    /\ usize_rem(new, b) = 0
    /\ usize_lt(new - old, b)
    /\ Advanced(old, new - old, new)

\* The cursor is beyond the last bit of the data.
PastTheEnd(self) == self.bit_pos < 0 \/ self.bit_pos > Len(self.data) * 8

\* What one call on the reader does to the cursor and returns.
CursorMoves ==
    LET call == reader_call'
        old == reader.bit_pos
        new == reader'.bit_pos
    IN /\ reader'.data = reader.data
       /\ (call.fn = "read_bits" /\ call.result.ok) => Advanced(old, call.n, new)
       /\ (call.fn = "read_bits" /\ ~call.result.ok) => new = old
       /\ (call.fn = "read_bits" /\ PastTheEnd(reader)
              /\ call.n >= 0 /\ call.n <= 64)
             => call.result = Err("OutOfBounds")
       /\ call.fn = "read_bits_at" => new = old
       /\ call.fn = "skip_bits"
             => (call.result = Ok(<<>>) /\ Advanced(old, call.n, new))
       /\ (call.fn = "align_to" /\ call.n = 0)
             => (call.result = Ok(<<>>) /\ new = old)
       /\ (call.fn = "align_to" /\ call.n # 0)
             => (call.result = Ok(<<>>) /\ AlignedUp(old, call.n, new))

\* C29: for the cursor-based BitReader, after any sequence of read_bits,
\* read_bits_at, skip_bits and align_to calls: a successful read_bits(n)
\* advances the cursor by exactly n, a failing read_bits leaves the cursor
\* unchanged, read_bits_at never moves the cursor, skip_bits(n) advances it by
\* n without a bounds check, and align_to(b) with b > 0 moves it to the
\* smallest multiple of b that is not below its current value (align_to(0)
\* changes nothing); a read_bits after the cursor has passed the end of the
\* data returns OutOfBounds.
C29_CursorMoves == [][CursorMoves]_vars

\* ---- C30

\* The configured scale or the configured offset is NaN or an infinity.
ScaleOrOffsetNonFinite ==
    \/ is_some(transform.t.scale) /\ ~is_finite(transform.t.scale)
    \/ is_some(transform.t.offset) /\ ~is_finite(transform.t.offset)

\* C30: Transform::apply returns InvalidScaleOffset, for every raw input,
\* whenever the configured scale or the configured offset is non-finite (NaN
\* or infinity).
C30_NonFiniteScaleOrOffset ==
    (Applied /\ ScaleOrOffsetNonFinite) => transformed_value = TErr("InvalidScaleOffset")

====
